---- MODULE Spec2Model ----
(***************************************************************************)
(* A model of VSTGUI's CViewContainer (vstgui/lib/cviewcontainer.cpp): the  *)
(* intrusive doubly linked list of CCView nodes, the reference counts of    *)
(* the child views, the attached flags, the mouse-down capture and the      *)
(* drag target, mouse and drag dispatch, hit-testing and autosizing.        *)
(***************************************************************************)
EXTENDS Integers, Sequences, FiniteSets, TLC

\* ---------------------------------------------------------------- bounds
NViews == 3          \* CView objects the client owns
NSmall == 2          \* views of the specifications with several containers or event inputs
NContainers == 2     \* CViewContainer objects
MaxNodes == 3        \* CCView list nodes alive at the same time
MaxOps == 4          \* counted addView/removeView calls (SpecCount)
MaxCoord == 3        \* event points have x in 0..MaxCoord
MaxDelta == 2        \* |width delta| and |height delta| of a resize

Null == 0
Views == 1..NViews
Containers == 1..NContainers
Nodes == 1..MaxNodes
ViewOrNull == Views \cup {Null}
NodeOrNull == Nodes \cup {Null}

\* CMouseEventResult
kMouseEventNotImplemented == "kMouseEventNotImplemented"
kMouseEventHandled == "kMouseEventHandled"
kMouseEventNotHandled == "kMouseEventNotHandled"
\* the remaining result of a child: neither refused nor kMouseEventHandled
kMouseDownEventHandledButDontNeedMovedOrUpEvents ==
    "kMouseDownEventHandledButDontNeedMovedOrUpEvents"
MouseResults ==
    {kMouseEventNotImplemented, kMouseEventHandled, kMouseEventNotHandled,
     kMouseDownEventHandledButDontNeedMovedOrUpEvents}

\* autosizing flags (a set of flag names stands for the bit set)
kAutosizeLeft == "L"
kAutosizeTop == "T"
kAutosizeRight == "R"
kAutosizeBottom == "B"
kAutosizeColumn == "Col"
kAutosizeRow == "Row"
EdgeFlags == {kAutosizeLeft, kAutosizeTop, kAutosizeRight, kAutosizeBottom}

VARIABLES
    pFirstView,       \* [Containers -> NodeOrNull]   CViewContainer::pFirstView
    pLastView,        \* [Containers -> NodeOrNull]   CViewContainer::pLastView
    pView,            \* [Nodes -> ViewOrNull]        CCView::pView (Null: the node is not allocated)
    pNext,            \* [Nodes -> NodeOrNull]        CCView::pNext
    pPrevious,        \* [Nodes -> NodeOrNull]        CCView::pPrevious
    nbReference,      \* [Views -> Nat]               reference count; 0: the view is destroyed
    viewAttached,     \* [Views -> BOOLEAN]           the child's isAttached ()
    isAttached,       \* [Containers -> BOOLEAN]      the container's isAttached ()
    mouseDownView,    \* [Containers -> ViewOrNull]
    currentDragView,  \* [Containers -> ViewOrNull]
    visible,          \* [Views -> BOOLEAN]           the child's isVisible ()
    mouseEnabled,     \* [Views -> BOOLEAN]           the child's getMouseEnabled ()
    transparent,      \* [Views -> BOOLEAN]           the child's getTransparency ()
    viewSize,         \* [Views -> rect]              the child's frame
    mouseableArea,    \* [Views -> rect]              the child's mouse-sensitive area
    autosizeFlags,    \* [Views -> SUBSET flags]      the child's autosize flags
    size,             \* [Containers -> rect]         the container's frame
    cAutosize,        \* [Containers -> SUBSET flags] the container's autosize flags
    deadUse,          \* a forget () or a call reached a view that was already destroyed
    gesture,          \* [Containers -> ViewOrNull]   history: child that owns the running mouse gesture
    entered,          \* SUBSET Views                 history: views that got onDragEnter and no onDragLeave since
    pParentView,      \* [Containers -> Containers or Null] CView::pParentView of the container
    cVisible,         \* [Containers -> BOOLEAN]     the container's own isVisible ()
    asView,           \* [Containers -> ViewOrNull]  the container as a CView in a child list
    wantsFocus,       \* [Views -> BOOLEAN]          the child's wantsFocus ()
    focusView,        \* ViewOrNull                  CFrame: the view that has the focus
    listener,         \* [Views -> BOOLEAN]          the child is a CControl with a listener
    bDirty,           \* [Views -> BOOLEAN]          CView::bDirty of the child
    cDirty,           \* [Containers -> BOOLEAN]     CView::bDirty of the container
    alphaValue,       \* [Views -> alpha]            the child's getAlphaValue ()
    cMouseableArea,   \* [Containers -> rect]        the container's own mouse-sensitive area
    nAdded,           \* [Views -> Nat] history: addView calls with this view that returned true
    nRemoved,         \* [Views -> Nat] history: removeView calls with this view that returned true
    model,            \* Minesweeper::Model: the cells' bits, opened, flagged, trapped (NoModel: no game)
    controller,       \* MinefieldViewController: mouseMode, ignoreMouseUp, mouseDownTimer, startTime, gameTimer
    nMoves,           \* history: calls of Model::open and Model::mark made from outside the model
    last              \* history: the last call, its arguments, its result and what it delivered

listVars == <<pFirstView, pLastView, pView, pNext, pPrevious>>
viewVars == <<nbReference, viewAttached>>
captureVars == <<mouseDownView, currentDragView, gesture, entered>>
geomVars == <<visible, mouseEnabled, transparent, viewSize, mouseableArea, autosizeFlags, size, cAutosize>>
\* the Minesweeper example, which no call of a container touches
gameVars == <<model, controller, nMoves>>
countVars == <<nAdded, nRemoved, gameVars>>
paintVars == <<bDirty, cDirty, alphaValue, cMouseableArea>>
nestVars == <<pParentView, cVisible, asView, wantsFocus, focusView, listener, paintVars>>
vars == <<listVars, viewVars, isAttached, captureVars, geomVars, nestVars, deadUse, countVars, last>>

\* ------------------------------------------------------------ rectangles
Rect(l, t, r, b) == [left |-> l, top |-> t, right |-> r, bottom |-> b]
getWidth(r) == r.right - r.left
getHeight(r) == r.bottom - r.top
Point(x, y) == [x |-> x, y |-> y]
\* CPoint::offset
OffsetPoint(p, dx, dy) == Point(p.x + dx, p.y + dy)
\* CPoint::isInside (CRect)
IsInside(p, r) == p.x >= r.left /\ p.x < r.right /\ p.y >= r.top /\ p.y < r.bottom

\* ------------------------------------------------------- list traversal
\* The nodes reached from n by following nx, head first.
RECURSIVE Walk(_, _)
Walk(nx, n) == IF n = Null THEN <<>> ELSE <<n>> \o Walk(nx, nx[n])

NodeSeq(c) == Walk(pNext, pFirstView[c])
\* The child sequence of container c, head to tail (FOREACHSUBVIEW).
RECURSIVE ViewsFrom(_)
ViewsFrom(n) == IF n = Null THEN <<>> ELSE <<pView[n]>> \o ViewsFrom(pNext[n])
Children(c) == ViewsFrom(pFirstView[c])

SeqRange(s) == {s[i] : i \in 1..Len(s)}

\* CViewContainer::getNbViews: for (pSv = pFirstView; pSv; pSv = pSv->pNext) nb++
RECURSIVE CountFrom(_)
CountFrom(pSv) == IF pSv = Null THEN 0 ELSE 1 + CountFrom(pNext[pSv])
getNbViews(c) == CountFrom(pFirstView[c])

\* CViewContainer::isChild (pView, false): the loop over pNext from pFirstView
RECURSIVE IsChildFrom(_, _)
IsChildFrom(pV, v) ==
    IF pV = Null THEN FALSE
    ELSE IF v = pView[pV] THEN TRUE
    ELSE IsChildFrom(pNext[pV], v)
isChild(c, v) == IsChildFrom(pFirstView[c], v)

\* first node of the list of c that holds v, Null when there is none
RECURSIVE FindNode(_, _, _, _)
FindNode(pvw, nx, n, v) ==
    IF n = Null THEN Null
    ELSE IF pvw[n] = v THEN n
    ELSE FindNode(pvw, nx, nx[n], v)

\* ------------------------------------------------------ reference counts
\* CBaseObject::remember
Remember(rc, v) == [rc EXCEPT ![v] = @ + 1]
\* CBaseObject::forget: the object is destroyed when the count reaches zero
Forget(rc, v) == [rc EXCEPT ![v] = IF @ > 0 THEN @ - 1 ELSE 0]

\* history: a destroyed view has received nothing
StillAlive(e, rc) == {u \in e : rc[u] > 0}

\* new CCView: the lowest free node
FreeNodes == {n \in Nodes : pView[n] = Null}
NewNode == CHOOSE n \in FreeNodes : \A m \in FreeNodes : n <= m

\* the record of the last call: what was called, with what, and what it returned;
\* target and where2 are the child a mouse call was delivered to and the point it got
NoPoint == Point(-1, -1)
LastRec(op, c, v, arg, ret) ==
    [op |-> op, c |-> c, v |-> v, arg |-> arg, ret |-> ret,
     target |-> Null, where2 |-> NoPoint]

\* ------------------------------------------------------- node identities
\* A node's identity is its address, which no call observes: states that differ
\* only by a renaming of the nodes are the same program state. Every call that
\* changes a list ends by renaming the nodes: the lists' nodes in list order,
\* container by container, then the other allocated nodes, then the free ones.
RECURSIVE AscSeq(_)
AscSeq(S) ==
    IF S = {} THEN <<>>
    ELSE LET m == CHOOSE x \in S : \A y \in S : x <= y IN <<m>> \o AscSeq(S \ {m})

RECURSIVE ListsOrder(_, _)
ListsOrder(H, k) ==
    IF k = 0 THEN <<>> ELSE ListsOrder(H, k - 1) \o Walk(H.next, H.first[k])

NodeOrder(H) ==
    LET inLists == ListsOrder(H, NContainers)
        others == {n \in Nodes : H.view[n] # Null} \ SeqRange(inLists)
        free == (Nodes \ SeqRange(inLists)) \ others
    IN inLists \o AscSeq(others) \o AscSeq(free)

Renamed(H, order) ==
    LET ren(n) == IF n = Null THEN Null ELSE CHOOSE i \in 1..Len(order) : order[i] = n
    IN [first |-> [c \in Containers |-> ren(H.first[c])],
        lastv |-> [c \in Containers |-> ren(H.lastv[c])],
        view |-> [m \in Nodes |-> H.view[order[m]]],
        next |-> [m \in Nodes |-> ren(H.next[order[m]])],
        prev |-> [m \in Nodes |-> ren(H.prev[order[m]])]]

Norm(H) == CHOOSE N \in {Renamed(H, order) : order \in {NodeOrder(H)}} : TRUE

\* the lists after a call: L holds the new first and last node of container c and
\* the new pNext and pPrevious, vw the new pView
SetList(c, L, vw) ==
    \E K \in {L} :
    \E N \in {Norm([first |-> [pFirstView EXCEPT ![c] = K.first],
                     lastv |-> [pLastView EXCEPT ![c] = K.lastv],
                     view |-> vw, next |-> K.next, prev |-> K.prev])} :
       /\ pFirstView' = N.first
       /\ pLastView' = N.lastv
       /\ pView' = N.view
       /\ pNext' = N.next
       /\ pPrevious' = N.prev

\* ---------------------------------------------------------------- addView
\* faulty variant of AddViewRefused: an attached view is let in
AddViewRefusedNullOnly(v) == v = Null
\* addView, lines 301-305: a null view and an attached view are refused
AddViewRefused(v) == v = Null \/ viewAttached[v]

\* faulty variant of LinkTail: the list is overwritten by the new node
LinkTailLoseRest(c, pSv) ==
    [first |-> pSv, lastv |-> pSv, next |-> pNext, prev |-> pPrevious]
\* faulty variant of LinkTail: the new node is linked at the head
LinkAtHead(c, pSv) ==
    LET pV == pFirstView[c] IN
    IF pV = Null
    THEN [first |-> pSv, lastv |-> pSv, next |-> pNext, prev |-> pPrevious]
    ELSE [first |-> pSv, lastv |-> pLastView[c],
          next |-> [pNext EXCEPT ![pSv] = pV],
          prev |-> [pPrevious EXCEPT ![pV] = pSv]]
\* addView (pView), lines 309-321: link the new node pSv behind the last node
LinkTail(c, pSv) ==
    LET pV == pFirstView[c] IN
    IF pV = Null
    THEN [first |-> pSv, lastv |-> pSv, next |-> pNext, prev |-> pPrevious]
    ELSE LET ns == Walk(pNext, pV)
             tail == ns[Len(ns)]          \* while (pV->pNext) pV = pV->pNext
         IN [first |-> pFirstView[c], lastv |-> pSv,
             next |-> [pNext EXCEPT ![tail] = pSv],
             prev |-> [pPrevious EXCEPT ![pSv] = tail]]

\* addView (pView, pBefore), lines 353-356: the node the new one is put in front of
RECURSIVE BeforeNode(_, _)
BeforeNode(pV, pBefore) ==
    IF pNext[pV] # Null /\ pView[pV] # pBefore THEN BeforeNode(pNext[pV], pBefore) ELSE pV

\* faulty variant of LinkBefore: the new node is linked behind pV
LinkAfter(c, pSv, pBefore) ==
    LET pV0 == pFirstView[c] IN
    IF pV0 = Null
    THEN [first |-> pSv, lastv |-> pSv, next |-> pNext, prev |-> pPrevious]
    ELSE LET pV == BeforeNode(pV0, pBefore)
             nx == pNext[pV]
         IN [first |-> pFirstView[c],
             lastv |-> IF nx = Null THEN pSv ELSE pLastView[c],
             next |-> [pNext EXCEPT ![pSv] = nx, ![pV] = pSv],
             prev |-> IF nx = Null THEN [pPrevious EXCEPT ![pSv] = pV]
                      ELSE [pPrevious EXCEPT ![pSv] = pV, ![nx] = pSv]]
\* addView (pView, pBefore), lines 346-369
LinkBefore(c, pSv, pBefore) ==
    LET pV0 == pFirstView[c] IN
    IF pV0 = Null
    THEN [first |-> pSv, lastv |-> pSv, next |-> pNext, prev |-> pPrevious]
    ELSE LET pV == BeforeNode(pV0, pBefore)
             pp == pPrevious[pV]          \* pSv->pPrevious = pV->pPrevious
         IN [first |-> IF pp = Null THEN pSv ELSE pFirstView[c],
             lastv |-> pLastView[c],
             next |-> IF pp = Null THEN [pNext EXCEPT ![pSv] = pV]
                      ELSE [pNext EXCEPT ![pSv] = pV, ![pp] = pSv],
             prev |-> [pPrevious EXCEPT ![pSv] = pp, ![pV] = pSv]]

\* the part addView (pView) and addView (pView, pBefore) share: lines 301-307 and 323-327
AddCommon(op, c, v, arg, L) ==
    /\ ~deadUse
    /\ UNCHANGED nestVars
    /\ IF v = Null THEN TRUE ELSE nbReference[v] > 0     \* the caller passes no destroyed view
    /\ IF AddViewRefused(v)
       THEN /\ last' = LastRec(op, c, v, arg, FALSE)
            /\ UNCHANGED <<listVars, viewVars>>
       ELSE /\ FreeNodes # {}
            /\ SetList(c, L, [pView EXCEPT ![NewNode] = v])
            /\ nbReference' = Remember(nbReference, v)      \* CCView::CCView
            /\ viewAttached' = IF isAttached[c] THEN [viewAttached EXCEPT ![v] = TRUE]
                               ELSE viewAttached
            /\ last' = LastRec(op, c, v, arg, TRUE)
    /\ UNCHANGED <<isAttached, captureVars, geomVars, deadUse>>

\* bool CViewContainer::addView (CView* pView)
AddViewStep(c, v) == AddCommon("addView", c, v, Null, LinkTail(c, NewNode))
AddView(c, v) == AddViewStep(c, v) /\ UNCHANGED countVars

\* bool CViewContainer::addView (CView* pView, CView* pBefore)
AddViewBeforeStep(c, v, pBefore) ==
    AddCommon("addViewBefore", c, v, pBefore, LinkBefore(c, NewNode, pBefore))
AddViewBefore(c, v, pBefore) == AddViewBeforeStep(c, v, pBefore) /\ UNCHANGED countVars

\* ------------------------------------------------------------- removeView
\* faulty variant of ClearIf: the reference is kept
ClearIfKeep(ref, v) == ref
\* removeView, lines 438-441: the capture and the drag target are dropped first
ClearIf(ref, v) == IF v = ref THEN Null ELSE ref

\* faulty variant of Unlink: pLastView is not moved
UnlinkKeepLast(c, pV) ==
    LET nx == pNext[pV]
        pp == pPrevious[pV]
    IN [first |-> IF pp # Null THEN pFirstView[c] ELSE nx,
        lastv |-> pLastView[c],
        next |-> IF pp # Null THEN [pNext EXCEPT ![pp] = nx, ![pV] = Null]
                 ELSE [pNext EXCEPT ![pV] = Null],
        prev |-> IF nx # Null THEN [pPrevious EXCEPT ![nx] = pp, ![pV] = Null]
                 ELSE [pPrevious EXCEPT ![pV] = Null]]
\* removeView, lines 447-448 and 458-473: take node pV out of the list of c
Unlink(c, pV) ==
    LET nx == pNext[pV]
        pp == pPrevious[pV]
    IN [first |-> IF pp # Null THEN pFirstView[c] ELSE nx,
        lastv |-> IF nx # Null THEN pLastView[c] ELSE pp,
        next |-> IF pp # Null THEN [pNext EXCEPT ![pp] = nx, ![pV] = Null]
                 ELSE [pNext EXCEPT ![pV] = Null],
        prev |-> IF nx # Null THEN [pPrevious EXCEPT ![nx] = pp, ![pV] = Null]
                 ELSE [pPrevious EXCEPT ![pV] = Null]]

\* faulty variant of Release: only ~CCView's forget ()
ReleaseOnce(rc, v, withForget) == Forget(rc, v)
\* removeView, lines 454-457: forget () when asked to, then ~CCView's forget ()
Release(rc, v, withForget) ==
    IF withForget THEN Forget(Forget(rc, v), v) ELSE Forget(rc, v)
\* the releases of Release that reach a view already destroyed
ReleaseOfDead(rc, v, withForget) ==
    rc[v] = 0 \/ (withForget /\ rc[v] = 1)

\* a destroyed view has no state left: its flags are those of a fresh object
DropDead(att, rc) == [u \in Views |-> att[u] /\ rc[u] > 0]

\* bool CViewContainer::removeView (CView* pView, bool withForget)
RemoveViewStep(c, v, withForget) ==
    LET pV == FindNode(pView, pNext, pFirstView[c], v)
        L == Unlink(c, pV)
        rc == Release(nbReference, v, withForget)
        att == IF isAttached[c] THEN [viewAttached EXCEPT ![v] = FALSE] ELSE viewAttached
    IN
    /\ ~deadUse
    /\ UNCHANGED nestVars
    /\ mouseDownView' = [mouseDownView EXCEPT ![c] = ClearIf(@, v)]
    /\ currentDragView' = [currentDragView EXCEPT ![c] = ClearIf(@, v)]
    /\ gesture' = [gesture EXCEPT ![c] = IF @ = v THEN Null ELSE @]
    /\ entered' = StillAlive(entered, IF pV = Null THEN nbReference ELSE rc)
    /\ IF pV = Null
       THEN /\ last' = LastRec("removeView", c, v, withForget, FALSE)
            /\ UNCHANGED <<listVars, viewVars, deadUse>>
       ELSE /\ SetList(c, L, [pView EXCEPT ![pV] = Null])       \* delete pV
            /\ nbReference' = rc
            /\ viewAttached' = DropDead(att, rc)
            /\ deadUse' = ReleaseOfDead(nbReference, v, withForget)
            /\ last' = LastRec("removeView", c, v, withForget, TRUE)
    /\ UNCHANGED <<isAttached, geomVars>>
RemoveView(c, v, withForget) == RemoveViewStep(c, v, withForget) /\ UNCHANGED countVars

\* -------------------------------------------------------------- removeAll
\* removeAll, lines 410-424: the loop over the nodes ns, st = [rc, att, dead]
RECURSIVE RemoveAllLoop(_, _, _, _)
RemoveAllLoop(ns, st, attachedC, withForget) ==
    IF ns = <<>> THEN st
    ELSE LET v == pView[Head(ns)]
         IN RemoveAllLoop(Tail(ns),
                [rc |-> Release(st.rc, v, withForget),
                 att |-> IF attachedC THEN [st.att EXCEPT ![v] = FALSE] ELSE st.att,
                 dead |-> st.dead \/ ReleaseOfDead(st.rc, v, withForget)],
                attachedC, withForget)

\* what removeAll does to the captures and the children, in the order of the code:
\* lines 406-408 clear the captures, then for every node removed (this) when the
\* container is attached, forget () when asked to, and delete of the node
RECURSIVE NodeCalls(_, _, _)
NodeCalls(ns, attachedC, withForget) ==
    IF ns = <<>> THEN <<>>
    ELSE LET v == pView[Head(ns)]
         IN (IF attachedC THEN << <<"removed", v>> >> ELSE <<>>)
            \o (IF withForget THEN << <<"forget", v>> >> ELSE <<>>)
            \o << <<"delete", v>> >>
            \o NodeCalls(Tail(ns), attachedC, withForget)
RemoveAllCalls(c, withForget) ==
    << <<"clear", Null>> >> \o NodeCalls(NodeSeq(c), isAttached[c], withForget)

\* bool CViewContainer::removeAll (bool withForget)
RemoveAll(c, withForget) ==
    LET ns == NodeSeq(c)
        st == RemoveAllLoop(ns, [rc |-> nbReference, att |-> viewAttached, dead |-> FALSE],
                            isAttached[c], withForget)
    IN
    /\ ~deadUse
    /\ UNCHANGED nestVars
    /\ mouseDownView' = [mouseDownView EXCEPT ![c] = Null]
    /\ currentDragView' = [currentDragView EXCEPT ![c] = Null]
    /\ gesture' = [gesture EXCEPT ![c] = Null]
    /\ entered' = StillAlive(entered, st.rc)
    /\ SetList(c, [first |-> Null, lastv |-> Null,
                    next |-> [n \in Nodes |-> IF n \in SeqRange(ns) THEN Null ELSE pNext[n]],
                    prev |-> [n \in Nodes |-> IF n \in SeqRange(ns) THEN Null
                                              ELSE pPrevious[n]]],
               [n \in Nodes |-> IF n \in SeqRange(ns) THEN Null ELSE pView[n]])
    /\ nbReference' = st.rc
    /\ viewAttached' = DropDead(st.att, st.rc)
    /\ deadUse' = st.dead
    /\ last' = [LastRec("removeAll", c, Null, withForget, TRUE)
                   EXCEPT !.where2 = RemoveAllCalls(c, withForget)]
    /\ UNCHANGED <<isAttached, geomVars, countVars>>

\* ------------------------------------------------------- changeViewZOrder
\* faulty variant of NodeAt: newIndex counts from one
RECURSIVE NodeAtFromOne(_, _, _)
NodeAtFromOne(nx, n, newIndex) ==
    IF n = Null THEN Null
    ELSE IF newIndex = 1 THEN n
    ELSE NodeAtFromOne(nx, nx[n], newIndex - 1)
\* changeViewZOrder, lines 574-581: the node at newIndex, counted from n
RECURSIVE NodeAt(_, _, _)
NodeAt(nx, n, newIndex) ==
    IF n = Null THEN Null
    ELSE IF newIndex = 0 THEN n
    ELSE NodeAt(nx, nx[n], newIndex - 1)

\* faulty variant of Relink: the node in front of which ccView is put keeps its
\* old predecessor
RelinkOneWay(c, ccView, newIndex) ==
    LET nx0 == pNext[ccView]
        pp0 == pPrevious[ccView]
        next1 == IF pp0 # Null THEN [pNext EXCEPT ![pp0] = nx0] ELSE pNext
        first1 == IF pp0 # Null THEN pFirstView[c] ELSE nx0
        prev1 == IF nx0 # Null THEN [pPrevious EXCEPT ![nx0] = pp0] ELSE pPrevious
        last1 == IF nx0 # Null THEN pLastView[c] ELSE pp0
        ccView2 == NodeAt(next1, first1, newIndex)
    IN IF ccView2 = Null
       THEN [first |-> first1, lastv |-> ccView,
             next |-> [next1 EXCEPT ![last1] = ccView, ![ccView] = Null],
             prev |-> [prev1 EXCEPT ![ccView] = last1]]
       ELSE LET pp2 == prev1[ccView2]
            IN [first |-> IF pp2 # Null THEN first1 ELSE ccView,
                lastv |-> last1,
                next |-> IF pp2 # Null THEN [next1 EXCEPT ![ccView] = ccView2, ![pp2] = ccView]
                         ELSE [next1 EXCEPT ![ccView] = ccView2],
                prev |-> [prev1 EXCEPT ![ccView] = pp2]]
\* changeViewZOrder, lines 562-602: unlink ccView, then link it in front of the
\* node at newIndex, or behind the last node when there is no such node
Relink(c, ccView, newIndex) ==
    LET nx0 == pNext[ccView]
        pp0 == pPrevious[ccView]
        next1 == IF pp0 # Null THEN [pNext EXCEPT ![pp0] = nx0] ELSE pNext
        first1 == IF pp0 # Null THEN pFirstView[c] ELSE nx0
        prev1 == IF nx0 # Null THEN [pPrevious EXCEPT ![nx0] = pp0] ELSE pPrevious
        last1 == IF nx0 # Null THEN pLastView[c] ELSE pp0
        ccView2 == NodeAt(next1, first1, newIndex)
    IN IF ccView2 = Null
       THEN [first |-> first1, lastv |-> ccView,
             next |-> [next1 EXCEPT ![last1] = ccView, ![ccView] = Null],
             prev |-> [prev1 EXCEPT ![ccView] = last1]]
       ELSE LET pp2 == prev1[ccView2]
            IN [first |-> IF pp2 # Null THEN first1 ELSE ccView,
                lastv |-> last1,
                next |-> IF pp2 # Null THEN [next1 EXCEPT ![ccView] = ccView2, ![pp2] = ccView]
                         ELSE [next1 EXCEPT ![ccView] = ccView2],
                prev |-> [prev1 EXCEPT ![ccView] = pp2, ![ccView2] = ccView]]

\* bool CViewContainer::changeViewZOrder (CView* view, int32_t newIndex)
ChangeViewZOrder(c, view, newIndex) ==
    LET ccView == FindNode(pView, pNext, pFirstView[c], view)
        L == Relink(c, ccView, newIndex)
    IN
    /\ ~deadUse
    /\ UNCHANGED nestVars
    /\ IF pFirstView[c] = pLastView[c] \/ ccView = Null
       THEN /\ last' = LastRec("changeViewZOrder", c, view, newIndex, FALSE)
            /\ UNCHANGED listVars
       ELSE /\ SetList(c, L, pView)
            /\ last' = LastRec("changeViewZOrder", c, view, newIndex, TRUE)
    /\ UNCHANGED <<viewVars, isAttached, captureVars, geomVars, deadUse, countVars>>

\* ------------------------------------------------------ attached / removed
\* CView::attached and CView::removed of the children, called for every node of ns
SetAttachedAll(ns, att, value) ==
    [u \in Views |-> IF \E i \in 1..Len(ns) : pView[ns[i]] = u THEN value ELSE att[u]]
\* a child in ns is already destroyed
AnyDead(ns) == \E i \in 1..Len(ns) : nbReference[pView[ns[i]]] = 0

\* the callbacks of attached and removed in the order they are made: name for
\* every node of ns, then the container's own CView::name
ChildCalls(name, c, ns) ==
    [i \in 1..Len(ns) |-> <<name, pView[ns[i]]>>] \o << <<name, "this">> >>

\* bool CViewContainer::attached (CView* parent)
Attached(c) ==
    /\ ~deadUse
    /\ UNCHANGED nestVars
    /\ IF isAttached[c]
       THEN /\ last' = [LastRec("attached", c, Null, Null, FALSE) EXCEPT !.where2 = <<>>]
            /\ UNCHANGED <<viewAttached, isAttached, deadUse>>
       ELSE /\ viewAttached' = SetAttachedAll(NodeSeq(c), viewAttached, TRUE)
            /\ isAttached' = [isAttached EXCEPT ![c] = TRUE]
            /\ deadUse' = AnyDead(NodeSeq(c))
            /\ last' = [LastRec("attached", c, Null, Null, TRUE)
                           EXCEPT !.where2 = ChildCalls("attached", c, NodeSeq(c))]
    /\ UNCHANGED <<listVars, nbReference, captureVars, geomVars, countVars>>

\* bool CViewContainer::removed (CView* parent)
Removed(c) ==
    /\ ~deadUse
    /\ UNCHANGED nestVars
    /\ IF ~isAttached[c]
       THEN /\ last' = [LastRec("removed", c, Null, Null, FALSE) EXCEPT !.where2 = <<>>]
            /\ UNCHANGED <<viewAttached, isAttached, deadUse>>
       ELSE /\ viewAttached' = SetAttachedAll(NodeSeq(c), viewAttached, FALSE)
            /\ isAttached' = [isAttached EXCEPT ![c] = FALSE]
            /\ deadUse' = AnyDead(NodeSeq(c))
            /\ last' = [LastRec("removed", c, Null, Null, TRUE)
                           EXCEPT !.where2 = ChildCalls("removed", c, NodeSeq(c))]
    /\ UNCHANGED <<listVars, nbReference, captureVars, geomVars, countVars>>

\* the client creates a view: one reference, not attached, in no list
CreateView(v) ==
    /\ ~deadUse
    /\ UNCHANGED nestVars
    /\ nbReference[v] = 0
    /\ \A n \in Nodes : pView[n] # v
    /\ \A c \in Containers : mouseDownView[c] # v /\ currentDragView[c] # v
    /\ nbReference' = [nbReference EXCEPT ![v] = 1]
    /\ last' = LastRec("create", 1, v, Null, TRUE)
    /\ UNCHANGED <<listVars, viewAttached, isAttached, captureVars, geomVars, deadUse, countVars>>

\* no Minesweeper window is open
NoModel == [running |-> FALSE]
NoController == [running |-> FALSE]
InitNoGame == model = NoModel /\ controller = NoController /\ nMoves = 0

\* ------------------------------------------------------------------ Init
\* the state after the constructors: empty lists, no capture, views with the
\* creator's reference
InitEmpty ==
    /\ pFirstView = [c \in Containers |-> Null]
    /\ pLastView = [c \in Containers |-> Null]
    /\ pView = [n \in Nodes |-> Null]
    /\ pNext = [n \in Nodes |-> Null]
    /\ pPrevious = [n \in Nodes |-> Null]
    /\ nbReference = [v \in Views |-> 1]
    /\ viewAttached = [v \in Views |-> FALSE]
    /\ mouseDownView = [c \in Containers |-> Null]
    /\ currentDragView = [c \in Containers |-> Null]
    /\ gesture = [c \in Containers |-> Null]
    /\ entered = {}
    /\ deadUse = FALSE
    /\ nAdded = [v \in Views |-> 0]
    /\ nRemoved = [v \in Views |-> 0]
\* the containers of a program that runs no game
InitList == InitEmpty /\ InitNoGame

\* an alpha value is the fraction num / den; CView::alphaValue starts as 1
Alpha(n, d) == [num |-> n, den |-> d]
\* the frames used where geometry plays no part
DefaultRect == Rect(0, 0, 2, 2)
\* nothing is dirty after a paint, and every view is opaque; the mouse-sensitive
\* area of a container is one its owner gave it
InitClean ==
    /\ bDirty = [v \in Views |-> FALSE]
    /\ cDirty = [c \in Containers |-> FALSE]
    /\ alphaValue = [v \in Views |-> Alpha(1, 1)]
    /\ cMouseableArea = [c \in Containers |-> DefaultRect]

\* containers that lie directly in the frame, visible, and views that are no
\* containers and do not take the focus
InitFlat ==
    /\ pParentView = [c \in Containers |-> Null]
    /\ cVisible = [c \in Containers |-> TRUE]
    /\ asView = [c \in Containers |-> Null]
    /\ wantsFocus = [v \in Views |-> FALSE]
    /\ focusView = Null
    /\ listener = [v \in Views |-> FALSE]
    /\ InitClean

InitGeomDefault ==
    /\ visible = [v \in Views |-> TRUE]
    /\ mouseEnabled = [v \in Views |-> TRUE]
    /\ transparent = [v \in Views |-> FALSE]
    /\ viewSize = [v \in Views |-> DefaultRect]
    /\ mouseableArea = [v \in Views |-> DefaultRect]
    /\ autosizeFlags = [v \in Views |-> {}]
    /\ size = [c \in Containers |-> DefaultRect]
    /\ cAutosize = [c \in Containers |-> {}]

NoCall ==
    [op |-> "none", c |-> 1, v |-> Null, arg |-> Null, ret |-> FALSE,
     target |-> Null, where2 |-> NoPoint]

Init ==
    /\ InitList
    /\ InitFlat
    /\ InitGeomDefault
    /\ isAttached = [c \in Containers |-> FALSE]
    /\ last = NoCall

\* several containers, attached or not: every list operation
SmallViews == 1..NSmall
SmallOrNull == SmallViews \cup {Null}
Next ==
    \/ \E c \in Containers, v \in SmallOrNull : AddView(c, v)
    \/ \E c \in Containers, v \in SmallOrNull, b \in SmallOrNull : AddViewBefore(c, v, b)
    \/ \E c \in Containers, v \in SmallOrNull, f \in BOOLEAN : RemoveView(c, v, f)
    \/ \E c \in Containers, f \in BOOLEAN : RemoveAll(c, f)
    \/ \E c \in Containers : Attached(c)
    \/ \E c \in Containers : Removed(c)
    \/ \E v \in SmallViews : CreateView(v)

Spec == Init /\ [][Next]_vars

\* ------------------------------------------------- one container, counted
Main == CHOOSE c \in Containers : TRUE

RECURSIVE SumUpTo(_, _)
SumUpTo(f, n) == IF n = 0 THEN 0 ELSE f[n] + SumUpTo(f, n - 1)
Total(f) == SumUpTo(f, NViews)

Count(f, v, ret) == IF ret /\ v \in Views THEN [f EXCEPT ![v] = @ + 1] ELSE f

AddViewCounted(c, v) ==
    /\ Total(nAdded) + Total(nRemoved) < MaxOps
    /\ AddViewStep(c, v)
    /\ nAdded' = Count(nAdded, v, last'.ret)
    /\ UNCHANGED nRemoved
    /\ UNCHANGED gameVars

AddViewBeforeCounted(c, v, pBefore) ==
    /\ Total(nAdded) + Total(nRemoved) < MaxOps
    /\ AddViewBeforeStep(c, v, pBefore)
    /\ nAdded' = Count(nAdded, v, last'.ret)
    /\ UNCHANGED nRemoved
    /\ UNCHANGED gameVars

RemoveViewCounted(c, v, withForget) ==
    /\ Total(nAdded) + Total(nRemoved) < MaxOps
    /\ RemoveViewStep(c, v, withForget)
    /\ nRemoved' = Count(nRemoved, v, last'.ret)
    /\ UNCHANGED nAdded
    /\ UNCHANGED gameVars

Indices == -1..MaxNodes

\* the container is attached to a frame or not
InitOne ==
    /\ InitList
    /\ InitFlat
    /\ InitGeomDefault
    /\ isAttached \in {[c \in Containers |-> b] : b \in BOOLEAN}
    /\ last = NoCall

NextCount ==
    \/ \E v \in ViewOrNull : AddViewCounted(Main, v)
    \/ \E v \in ViewOrNull, b \in ViewOrNull : AddViewBeforeCounted(Main, v, b)
    \/ \E v \in ViewOrNull, f \in BOOLEAN : RemoveViewCounted(Main, v, f)
    \/ \E v \in ViewOrNull, k \in Indices : ChangeViewZOrder(Main, v, k)
    \/ \E v \in Views : CreateView(v)

SpecCount == InitOne /\ [][NextCount]_vars

\* ------------------------------------------- one container, all list calls
\* The views keep the creator's reference (withForget is false), so that the
\* reference counts follow from the lists and every list stays reachable.

NextOne ==
    \/ \E v \in ViewOrNull : AddView(Main, v)
    \/ \E v \in ViewOrNull, b \in ViewOrNull : AddViewBefore(Main, v, b)
    \/ \E v \in ViewOrNull : RemoveView(Main, v, FALSE)
    \/ RemoveAll(Main, FALSE)
    \/ \E v \in ViewOrNull, k \in Indices : ChangeViewZOrder(Main, v, k)
    \/ Attached(Main)
    \/ Removed(Main)

SpecOne == InitOne /\ [][NextOne]_vars

\* ------------------------------------------------------------ hit testing
\* what a traversal yields when it reads a child that is already destroyed
Dangling == -1

\* CPoint where2 (where); where2.offset (-size.left, -size.top);
ToLocal(c, where) == OffsetPoint(where, -size[c].left, -size[c].top)

\* CView::hitTest: the point lies in the view's mouseable area
hitTest(v, where2) == IsInside(where2, mouseableArea[v])

\* faulty variant of ViewAtFrom: the search runs from the head
RECURSIVE ViewAtForward(_, _)
ViewAtForward(pV, where) ==
    IF pV = Null THEN Null
    ELSE IF nbReference[pView[pV]] = 0 THEN Dangling
    ELSE IF visible[pView[pV]] /\ IsInside(where, mouseableArea[pView[pV]]) THEN pView[pV]
    ELSE ViewAtForward(pNext[pV], where)
getViewAtFromHead(c, p) == ViewAtForward(pFirstView[c], ToLocal(c, p))

\* getViewAt, lines 1165-1175: FOREACHSUBVIEW_REVERSE from pLastView along pPrevious
RECURSIVE ViewAtFrom(_, _)
ViewAtFrom(pV, where) ==
    IF pV = Null THEN Null
    ELSE IF nbReference[pView[pV]] = 0 THEN Dangling
    ELSE IF visible[pView[pV]] /\ IsInside(where, mouseableArea[pView[pV]]) THEN pView[pV]
    ELSE ViewAtFrom(pPrevious[pV], where)
\* CView* CViewContainer::getViewAt (const CPoint& p, bool deep = false)
getViewAt(c, p) == ViewAtFrom(pLastView[c], ToLocal(c, p))

\* a call of getViewAt by the client
GetViewAt(c, p) ==
    /\ ~deadUse
    /\ UNCHANGED nestVars
    /\ \E view \in {getViewAt(c, p)} :
          /\ deadUse' = (view = Dangling)
          /\ last' = [LastRec("getViewAt", c, view, p, TRUE) EXCEPT !.where2 = ToLocal(c, p)]
    /\ UNCHANGED <<listVars, viewVars, isAttached, captureVars, geomVars, countVars>>

\* CView::setVisible of a child
SetVisible(v, state) ==
    /\ ~deadUse
    /\ UNCHANGED nestVars
    /\ nbReference[v] > 0
    /\ visible' = [visible EXCEPT ![v] = state]
    /\ last' = LastRec("setVisible", Main, v, state, TRUE)
    /\ UNCHANGED <<listVars, viewVars, isAttached, captureVars, mouseEnabled, transparent,
                   viewSize, mouseableArea, autosizeFlags, size, cAutosize, deadUse, countVars>>

\* ----------------------------------------------------------- mouse events
\* pParentFrame is set while the container is attached
HasParentFrame(c) == isAttached[c]

\* CBaseObjectGuard crg (pV) holds one more reference while the child is called
getNbReferenceGuarded(v) == nbReference[v] + 1

\* faulty variant of Qualifies: the test of onWheel, which asks for no mouse-enabled child
QualifiesLikeWheel(v, where2) == visible[v] /\ IsInside(where2, mouseableArea[v])
\* onMouseDown, line 907: the children that are tried
Qualifies(v, where2) == visible[v] /\ mouseEnabled[v] /\ hitTest(v, where2)

\* faulty variant of Captures: every result that accepts the click captures
CapturesAccepted(v, result) ==
    getNbReferenceGuarded(v) > 1
       /\ result # kMouseEventNotHandled /\ result # kMouseEventNotImplemented
\* onMouseDown, lines 923-924: the child is remembered as mouseDownView
Captures(v, result) == getNbReferenceGuarded(v) > 1 /\ result = kMouseEventHandled

\* onMouseDown, lines 906-930: the loop from pLastView along pPrevious; resp is
\* what each child's onMouseDown returns when it is called, modifier whether
\* buttons holds one of kAlt, kShift, kControl, kApple, and clicked what the
\* listener's controlModifierClicked returns. The result names the child that
\* decided the call (target), the children whose onMouseDown was called and what
\* they answered (tried, answers), the last of them that was given the focus
\* (focus) and the control whose listener took the click (clicked).
RECURSIVE MouseDownFrom(_, _, _, _, _)
MouseDownFrom(pV, where2, resp, modifier, clicked) ==
    IF pV = Null
    THEN [target |-> Null, result |-> kMouseEventNotHandled, capture |-> FALSE,
          tried |-> <<>>, answers |-> <<>>, focus |-> Null, clicked |-> Null]
    ELSE LET v == pView[pV] IN
         IF nbReference[v] = 0
         THEN [target |-> Dangling, result |-> kMouseEventNotHandled, capture |-> FALSE,
               tried |-> <<>>, answers |-> <<>>, focus |-> Null, clicked |-> Null]
         ELSE IF Qualifies(v, where2)
         THEN IF listener[v] /\ modifier /\ clicked # 0
              THEN [target |-> Null, result |-> kMouseEventHandled, capture |-> FALSE,
                    tried |-> <<>>, answers |-> <<>>, focus |-> Null, clicked |-> v]
              ELSE IF resp[v] # kMouseEventNotHandled /\ resp[v] # kMouseEventNotImplemented
              THEN [target |-> v, result |-> resp[v], capture |-> Captures(v, resp[v]),
                    tried |-> <<v>>, answers |-> <<resp[v]>>,
                    focus |-> IF wantsFocus[v] THEN v ELSE Null, clicked |-> Null]
              ELSE IF ~transparent[v]
              THEN [target |-> v, result |-> resp[v], capture |-> FALSE,
                    tried |-> <<v>>, answers |-> <<resp[v]>>,
                    focus |-> IF wantsFocus[v] THEN v ELSE Null, clicked |-> Null]
              ELSE LET rest == MouseDownFrom(pPrevious[pV], where2, resp, modifier, clicked)
                   IN [rest EXCEPT !.tried = <<v>> \o @,
                                   !.answers = <<resp[v]>> \o @,
                                   !.focus = IF @ # Null THEN @
                                             ELSE IF wantsFocus[v] THEN v ELSE Null]
         ELSE MouseDownFrom(pPrevious[pV], where2, resp, modifier, clicked)

\* the children whose onMouseDown can be called for a point: line 907
HitChildren(c, where2) ==
    {v \in SeqRange(Children(c)) : nbReference[v] > 0 /\ Qualifies(v, where2)}

\* CMouseEventResult CViewContainer::onMouseDown (CPoint &where, const CButtonState& buttons)
\* getFrame ()->setFocusView (pV), line 918, is a call through a null pointer
\* when the container is in no frame
OnMouseDownButtons(c, where, resp, modifier, clicked) ==
    /\ ~deadUse
    /\ \E r \in {MouseDownFrom(pLastView[c], ToLocal(c, where), resp, modifier, clicked)} :
          /\ deadUse' = (r.target = Dangling \/ (r.focus # Null /\ ~HasParentFrame(c)))
          /\ mouseDownView' = IF r.capture THEN [mouseDownView EXCEPT ![c] = r.target]
                              ELSE mouseDownView
          /\ gesture' = IF r.capture THEN [gesture EXCEPT ![c] = r.target] ELSE gesture
          /\ entered' = entered
          /\ focusView' = IF r.focus # Null /\ HasParentFrame(c) THEN r.focus ELSE focusView
          /\ last' = [op |-> "onMouseDown", c |-> c, v |-> Null, arg |-> Null,
                      ret |-> r.result, target |-> r.target, where2 |-> NoPoint,
                      local |-> ToLocal(c, where), takes |-> (modifier /\ clicked # 0),
                      tried |-> r.tried, answers |-> r.answers, clicked |-> r.clicked]
    /\ UNCHANGED <<listVars, viewVars, isAttached, currentDragView, geomVars, countVars>>
    /\ UNCHANGED <<pParentView, cVisible, asView, wantsFocus, listener, paintVars>>

\* onMouseDown with no modifier key held
OnMouseDown(c, where, resp) == OnMouseDownButtons(c, where, resp, FALSE, 0)

\* faulty variant of MouseTarget: the child under the point
MouseTargetHit(c, where) == getViewAt(c, where)
\* the child onMouseUp and onMouseMoved call: if (mouseDownView) mouseDownView->...
MouseTarget(c, where) == mouseDownView[c]

\* CMouseEventResult CViewContainer::onMouseUp (CPoint &where, const CButtonState& buttons)
OnMouseUp(c, where) ==
    /\ ~deadUse
    /\ UNCHANGED nestVars
    /\ \E t \in {MouseTarget(c, where)} :
          IF t # Null
          THEN /\ deadUse' = (t = Dangling \/ nbReference[t] = 0)
               /\ mouseDownView' = [mouseDownView EXCEPT ![c] = Null]
               /\ last' = [op |-> "onMouseUp", c |-> c, v |-> Null, arg |-> where,
                           ret |-> kMouseEventHandled, target |-> t,
                           where2 |-> ToLocal(c, where)]
          ELSE /\ UNCHANGED <<deadUse, mouseDownView>>
               /\ last' = [op |-> "onMouseUp", c |-> c, v |-> Null, arg |-> where,
                           ret |-> kMouseEventNotHandled, target |-> Null,
                           where2 |-> NoPoint]
    /\ gesture' = [gesture EXCEPT ![c] = Null]
    /\ entered' = entered
    /\ UNCHANGED <<listVars, viewVars, isAttached, currentDragView, geomVars, countVars>>

\* faulty variant of MoveDeclined: the test of onMouseDown, line 921
MoveDeclinedLikeDown(result) ==
    result = kMouseEventNotHandled \/ result = kMouseEventNotImplemented
\* onMouseMoved, line 962: mouseDownView->onMouseMoved (...) != kMouseEventHandled
MoveDeclined(result) == result # kMouseEventHandled

\* CMouseEventResult CViewContainer::onMouseMoved (CPoint &where, const CButtonState& buttons)
\* result is what the child's onMouseMoved returns
OnMouseMoved(c, where, result) ==
    /\ ~deadUse
    /\ UNCHANGED nestVars
    /\ \E t \in {MouseTarget(c, where)} :
          IF t # Null
          THEN /\ deadUse' = (t = Dangling \/ nbReference[t] = 0)
               /\ mouseDownView' = IF MoveDeclined(result)
                                   THEN [mouseDownView EXCEPT ![c] = Null]
                                   ELSE mouseDownView
               /\ last' = [op |-> "onMouseMoved", c |-> c, v |-> Null, arg |-> where,
                           ret |-> IF MoveDeclined(result)
                                   THEN kMouseEventNotHandled ELSE kMouseEventHandled,
                           target |-> t, where2 |-> ToLocal(c, where),
                           answer |-> result]
          ELSE /\ UNCHANGED <<deadUse, mouseDownView>>
               /\ last' = [op |-> "onMouseMoved", c |-> c, v |-> Null, arg |-> where,
                           ret |-> kMouseEventNotHandled, target |-> Null,
                           where2 |-> NoPoint, answer |-> result]
    /\ gesture' = IF MoveDeclined(result) THEN [gesture EXCEPT ![c] = Null] ELSE gesture
    /\ entered' = entered
    /\ UNCHANGED <<listVars, viewVars, isAttached, currentDragView, geomVars, countVars>>

\* ------------------------------------------------------------ drag events
\* a drag call reads a destroyed view: the old target or a child the search meets
DragDead(c, view) ==
    \/ view = Dangling
    \/ (currentDragView[c] # Null /\ nbReference[currentDragView[c]] = 0)

\* currentDragView = view
DragSetTarget(c, view) == [currentDragView EXCEPT ![c] = view]

\* history: the views with an onDragEnter that no onDragLeave has followed,
\* after the callbacks of calls were delivered in their order
RECURSIVE AfterCalls(_, _)
AfterCalls(e, calls) ==
    IF calls = <<>> THEN e
    ELSE LET k == calls[1]
         IN AfterCalls(IF k[1] = "onDragEnter" THEN e \cup {k[2]}
                       ELSE IF k[1] = "onDragLeave" THEN e \ {k[2]}
                       ELSE e, Tail(calls))

\* a callback delivered to child v, none when there is no such child
Deliver(name, v) == IF v = Null THEN <<>> ELSE << <<name, v>> >>

\* what all four drag calls do: nothing without pParentFrame; view is what
\* getViewAt (where) returned and calls are the callbacks delivered to children,
\* in the order of delivery
DragCommon(op, c, where, view, ret, dead, drag, calls) ==
    /\ ~deadUse
    /\ UNCHANGED nestVars
    /\ IF ~HasParentFrame(c)
       THEN /\ UNCHANGED <<currentDragView, deadUse, entered>>
            /\ last' = [op |-> op, c |-> c, v |-> Null, arg |-> FALSE, ret |-> FALSE,
                        target |-> Null, where2 |-> NoPoint, calls |-> <<>>]
       ELSE /\ deadUse' = dead
            /\ currentDragView' = IF dead THEN currentDragView ELSE drag
            /\ entered' = IF dead THEN entered ELSE AfterCalls(entered, calls)
            /\ last' = [op |-> op, c |-> c, v |-> IF dead THEN Null ELSE view,
                        arg |-> TRUE, ret |-> ret,
                        target |-> Null, where2 |-> ToLocal(c, where),
                        calls |-> IF dead THEN <<>> ELSE calls]
    /\ UNCHANGED <<listVars, viewVars, isAttached, mouseDownView, gesture, geomVars, countVars>>

\* void CViewContainer::onDragEnter (CDragContainer* drag, const CPoint& where)
OnDragEnter(c, where) ==
    \E view \in {getViewAt(c, where)} :
        DragCommon("onDragEnter", c, where, view, FALSE, DragDead(c, view),
                   DragSetTarget(c, view),
                   Deliver("onDragLeave", currentDragView[c]) \o Deliver("onDragEnter", view))

\* void CViewContainer::onDragLeave (CDragContainer* drag, const CPoint& where)
OnDragLeave(c, where) ==
    DragCommon("onDragLeave", c, where, Null, FALSE, DragDead(c, Null),
               DragSetTarget(c, Null),
               Deliver("onDragLeave", currentDragView[c]))

\* faulty variant of DragMoveCalls: the new target gets onDragMove, too
DragMoveCallsAndMove(cur, view) ==
    IF view # cur
    THEN Deliver("onDragLeave", cur) \o Deliver("onDragEnter", view) \o Deliver("onDragMove", view)
    ELSE Deliver("onDragMove", cur)
\* onDragMove, lines 1068-1077: the callbacks, cur being currentDragView
DragMoveCalls(cur, view) ==
    IF view # cur
    THEN Deliver("onDragLeave", cur) \o Deliver("onDragEnter", view)
    ELSE Deliver("onDragMove", cur)

\* void CViewContainer::onDragMove (CDragContainer* drag, const CPoint& where)
OnDragMove(c, where) ==
    \E view \in {getViewAt(c, where)} :
        DragCommon("onDragMove", c, where, view, FALSE, DragDead(c, view),
                   IF view # currentDragView[c] THEN DragSetTarget(c, view)
                   ELSE currentDragView,
                   DragMoveCalls(currentDragView[c], view))

\* faulty variant of DropCalls: the child that got the drop is not left
DropCallsNoLeave(cur, view, result) ==
    (IF view # cur THEN Deliver("onDragLeave", cur) ELSE <<>>)
    \o (IF view = Null THEN <<>> ELSE << <<"onDrop", view, result>> >>)
\* onDrop, lines 1008-1018: the callbacks, cur being currentDragView and result
\* what the child's onDrop returns
DropCalls(cur, view, result) ==
    (IF view # cur THEN Deliver("onDragLeave", cur) ELSE <<>>)
    \o (IF view = Null THEN <<>> ELSE << <<"onDrop", view, result>> >>)
    \o Deliver("onDragLeave", view)

\* bool CViewContainer::onDrop (CDragContainer* drag, const CPoint& where)
OnDrop(c, where, result) ==
    \E view \in {getViewAt(c, where)} :
        DragCommon("onDrop", c, where, view, IF view # Null THEN result ELSE FALSE,
                   DragDead(c, view), DragSetTarget(c, Null),
                   DropCalls(currentDragView[c], view, result))

\* --------------------------------------------- one container with the mouse
\* the children lie side by side and overlap their neighbours; every second one
\* is transparent; the container's origin is not the frame's
ChildArea(v) == Rect(v - 1, 0, v + 1, 2)
MouseOrigin == Rect(1, 1, 1 + MaxCoord, 1 + MaxCoord)
\* points of the frame, in the row of the children; x = 0 lies left of every child
Points == {Point(x, 2) : x \in 0..MaxCoord}

InitGeomMouse ==
    /\ visible = [v \in Views |-> TRUE]
    /\ mouseEnabled = [v \in Views |-> TRUE]
    /\ transparent = [v \in Views |-> v % 2 = 1]
    /\ viewSize = [v \in Views |-> ChildArea(v)]
    /\ mouseableArea = [v \in Views |-> ChildArea(v)]
    /\ autosizeFlags = [v \in Views |-> {}]
    /\ size = [c \in Containers |-> MouseOrigin]
    /\ cAutosize = [c \in Containers |-> {}]

InitMouse ==
    /\ InitList
    /\ InitFlat
    /\ InitGeomMouse
    /\ isAttached \in {[c \in Containers |-> b] : b \in BOOLEAN}
    /\ last = NoCall

NextMouse ==
    \/ \E v \in SmallViews : AddView(Main, v)
    \/ \E v \in SmallViews : RemoveView(Main, v, FALSE)
    \/ \E f \in BOOLEAN : RemoveAll(Main, f)
    \/ \E v \in SmallViews, k \in {0, MaxNodes} : ChangeViewZOrder(Main, v, k)
    \/ \E p \in Points : \E resp \in [HitChildren(Main, ToLocal(Main, p)) -> MouseResults] :
          OnMouseDown(Main, p, resp)
    \/ \E p \in Points, result \in MouseResults : OnMouseMoved(Main, p, result)
    \/ \E p \in Points : OnMouseUp(Main, p)
    \/ \E p \in Points : OnDragEnter(Main, p)
    \/ \E p \in Points : OnDragMove(Main, p)
    \/ \E p \in Points : OnDragLeave(Main, p)
    \/ \E p \in Points, result \in BOOLEAN : OnDrop(Main, p, result)

SpecMouse == InitMouse /\ [][NextMouse]_vars

\* ------------------------------------ one container, hit testing by the client
NextHit ==
    \/ \E v \in SmallViews : AddView(Main, v)
    \/ \E v \in SmallViews : RemoveView(Main, v, FALSE)
    \/ \E v \in SmallViews, k \in {0, MaxNodes} : ChangeViewZOrder(Main, v, k)
    \/ \E v \in SmallViews, b \in BOOLEAN : SetVisible(v, b)
    \/ \E p \in Points : GetViewAt(Main, p)

SpecHit == InitMouse /\ [][NextHit]_vars

\* ------------------------------------------------------------------ onWheel
\* what a child does in a callback: it leaves the list alone, or it takes itself
\* out of the container with removeView (this, false) or removeView (this, true)
kStay == "stay"
kRemoveSelf == "removeView (this, false)"
kRemoveSelfForget == "removeView (this, true)"
Reentries == {kStay, kRemoveSelf, kRemoveSelfForget}

\* removeView (v, withForget) of container c, called while a traversal of c is
\* on its way: st holds the lists, the counts and the captures as they are then
RemoveDuring(c, st, v, withForget) ==
    LET pV == FindNode(st.view, st.next, st.first, v)
        nx == st.next[pV]
        pp == st.prev[pV]
        cleared == [st EXCEPT !.mdv = ClearIf(@, v), !.cdv = ClearIf(@, v)]
    IN IF pV = Null THEN cleared
       ELSE [cleared EXCEPT
               !.first = IF pp # Null THEN @ ELSE nx,
               !.lastv = IF nx # Null THEN @ ELSE pp,
               !.next = IF pp # Null THEN [@ EXCEPT ![pp] = nx, ![pV] = Null]
                        ELSE [@ EXCEPT ![pV] = Null],
               !.prev = IF nx # Null THEN [@ EXCEPT ![nx] = pp, ![pV] = Null]
                        ELSE [@ EXCEPT ![pV] = Null],
               !.view = [@ EXCEPT ![pV] = Null],
               !.rc = Release(@, v, withForget),
               !.att = IF isAttached[c] THEN [@ EXCEPT ![v] = FALSE] ELSE @,
               !.dead = @ \/ ReleaseOfDead(st.rc, v, withForget)]

\* the callback of child v during a traversal of c
Callback(c, st, v, reentry) ==
    IF reentry = kStay THEN st
    ELSE RemoveDuring(c, st, v, reentry = kRemoveSelfForget)

\* faulty variant of WheelQualifies: a child that is not visible gets the wheel
WheelQualifiesUnseen(v, where2) == IsInside(where2, mouseableArea[v])
\* onWheel, line 978: the children the wheel is forwarded to
WheelQualifies(v, where2) == visible[v] /\ IsInside(where2, mouseableArea[v])

\* onWheel, lines 974-985: FOREACHSUBVIEW_REVERSE (true) from pSv on. resp is what
\* each child's onWheel returns and reentry what it does to the list meanwhile.
\* The step to the next node reads pSv->pPrevious: when the node was deleted by
\* then, the read is one of freed memory (st.freed), which yields the pointer
\* the node held (stale) or a null pointer.
RECURSIVE WheelFrom(_, _, _, _, _, _, _)
WheelFrom(c, pSv, where2, resp, reentry, stale, st) ==
    IF pSv = Null THEN [st EXCEPT !.ret = FALSE]
    ELSE LET v == st.view[pSv]
             before == st.prev[pSv]
         IN IF st.rc[v] = 0 THEN [st EXCEPT !.dead = TRUE, !.ret = FALSE]
            ELSE IF WheelQualifies(v, where2)
            THEN LET called == Callback(c, [st EXCEPT !.visited = Append(@, v)], v, reentry[v])
                 IN IF resp[v] THEN [called EXCEPT !.ret = TRUE]
                    ELSE IF called.rc[v] = 0 THEN [called EXCEPT !.dead = TRUE, !.ret = FALSE]
                    ELSE IF ~transparent[v] THEN [called EXCEPT !.ret = FALSE]
                    ELSE IF called.view[pSv] = Null
                    THEN WheelFrom(c, IF stale THEN before ELSE Null, where2, resp, reentry,
                                   stale, [called EXCEPT !.freed = TRUE])
                    ELSE WheelFrom(c, called.prev[pSv], where2, resp, reentry, stale, called)
            ELSE WheelFrom(c, before, where2, resp, reentry, stale, st)

\* the children whose onWheel can be called for a point: line 978
WheelChildren(c, where2) ==
    {v \in SeqRange(Children(c)) : nbReference[v] > 0 /\ WheelQualifies(v, where2)}

\* bool CViewContainer::onWheel (const CPoint &where, const CMouseWheelAxis &axis,
\*                               const float &distance, const CButtonState &buttons)
OnWheel(c, where, resp, reentry, stale) ==
    /\ ~deadUse
    /\ UNCHANGED nestVars
    /\ \E st \in {WheelFrom(c, pLastView[c], ToLocal(c, where), resp, reentry, stale,
                            [first |-> pFirstView[c], lastv |-> pLastView[c],
                             next |-> pNext, prev |-> pPrevious, view |-> pView,
                             rc |-> nbReference, att |-> viewAttached,
                             mdv |-> mouseDownView[c], cdv |-> currentDragView[c],
                             visited |-> <<>>, freed |-> FALSE, dead |-> FALSE,
                             ret |-> FALSE])} :
          /\ SetList(c, st, st.view)
          /\ nbReference' = st.rc
          /\ viewAttached' = DropDead(st.att, st.rc)
          /\ mouseDownView' = [mouseDownView EXCEPT ![c] = st.mdv]
          /\ currentDragView' = [currentDragView EXCEPT ![c] = st.cdv]
          /\ gesture' = [gesture EXCEPT ![c] = IF @ = st.mdv THEN @ ELSE Null]
          /\ entered' = StillAlive(entered, st.rc)
          /\ deadUse' = (st.dead \/ st.freed)
          /\ last' = [op |-> "onWheel", c |-> c, v |-> Null, arg |-> where, ret |-> st.ret,
                      target |-> Null, where2 |-> ToLocal(c, where),
                      visited |-> st.visited, freed |-> st.freed,
                      answers |-> [i \in 1..Len(st.visited) |-> resp[st.visited[i]]],
                      removed |-> {v \in SeqRange(st.visited) : reentry[v] # kStay}]
    /\ UNCHANGED <<isAttached, geomVars, countVars>>

\* ------------------------------- one container whose children answer the wheel
NextWheel ==
    \/ \E v \in SmallViews : AddView(Main, v)
    \/ \E v \in SmallViews : RemoveView(Main, v, FALSE)
    \/ \E p \in Points, stale \in BOOLEAN :
          \E resp \in [WheelChildren(Main, ToLocal(Main, p)) -> BOOLEAN],
             reentry \in [WheelChildren(Main, ToLocal(Main, p)) -> Reentries] :
                OnWheel(Main, p, resp, reentry, stale)

SpecWheel == InitMouse /\ [][NextWheel]_vars

\* ------------------------------------------------------------ setViewSize
\* CRect::offset, CRect::setWidth, CRect::setHeight
OffsetRect(r, dx, dy) == Rect(r.left + dx, r.top + dy, r.right + dx, r.bottom + dy)
setWidth(r, w) == [r EXCEPT !.right = r.left + w]
setHeight(r, h) == [r EXCEPT !.bottom = r.top + h]

\* faulty variant of ResizeColumn: every child is moved like the first one
ResizeColumnUnmoved(r, counter, widthDelta, n) ==
    setWidth(r, getWidth(r) + (widthDelta \div n))
\* lines 150-159: the container is a column of n children, this is child number counter
ResizeColumn(r, counter, widthDelta, n) ==
    LET moved == IF counter # 0 THEN OffsetRect(r, counter * (widthDelta \div n), 0) ELSE r
    IN setWidth(moved, getWidth(moved) + (widthDelta \div n))

\* faulty variant of ResizeRight: the test of kAutosizeLeft is inverted
ResizeRightLeftInverted(r, autosize, widthDelta) ==
    [r EXCEPT !.right = @ + widthDelta,
              !.left = IF kAutosizeLeft \in autosize THEN @ + widthDelta ELSE @]
\* lines 160-169: right += widthDelta; if (!(autosize & kAutosizeLeft)) left += widthDelta
ResizeRight(r, autosize, widthDelta) ==
    [r EXCEPT !.right = @ + widthDelta,
              !.left = IF kAutosizeLeft \notin autosize THEN @ + widthDelta ELSE @]

\* lines 170-179: the container is a row of n children
ResizeRow(r, counter, heightDelta, n) ==
    LET moved == IF counter # 0 THEN OffsetRect(r, 0, counter * (heightDelta \div n)) ELSE r
    IN setHeight(moved, getHeight(moved) + (heightDelta \div n))

\* lines 180-189: bottom += heightDelta; if (!(autosize & kAutosizeTop)) top += heightDelta
ResizeBottom(r, autosize, heightDelta) ==
    [r EXCEPT !.bottom = @ + heightDelta,
              !.top = IF kAutosizeTop \notin autosize THEN @ + heightDelta ELSE @]

\* lines 147-189: what one pass of the loop makes of a rectangle of the child
ResizeChild(r, autosize, flags, counter, widthDelta, heightDelta, n) ==
    LET h == IF kAutosizeColumn \in flags THEN ResizeColumn(r, counter, widthDelta, n)
             ELSE IF widthDelta # 0 /\ kAutosizeRight \in autosize
             THEN ResizeRight(r, autosize, widthDelta)
             ELSE r
    IN IF kAutosizeRow \in flags THEN ResizeRow(h, counter, heightDelta, n)
       ELSE IF heightDelta # 0 /\ kAutosizeBottom \in autosize
       THEN ResizeBottom(h, autosize, heightDelta)
       ELSE h

\* lines 146-196: FOREACHSUBVIEW over the nodes ns; st = [vs, ms, dead] are the
\* frames and mouseable areas of the views so far
RECURSIVE ResizeLoop(_, _, _, _, _, _, _)
ResizeLoop(ns, st, flags, counter, widthDelta, heightDelta, n) ==
    IF ns = <<>> THEN st
    ELSE LET v == pView[Head(ns)]
             vSize == ResizeChild(st.vs[v], autosizeFlags[v], flags, counter,
                                  widthDelta, heightDelta, n)
             mSize == ResizeChild(st.ms[v], autosizeFlags[v], flags, counter,
                                  widthDelta, heightDelta, n)
         IN IF nbReference[v] = 0
            THEN [st EXCEPT !.dead = TRUE]
            ELSE ResizeLoop(Tail(ns),
                    IF vSize # st.vs[v]
                    THEN [st EXCEPT !.vs[v] = vSize, !.ms[v] = mSize]
                    ELSE st,
                    flags, counter + 1, widthDelta, heightDelta, n)

\* the coordinates of a child the model follows
InCap(r) ==
    \A x \in {r.left, r.top, r.right, r.bottom} : x >= -MaxDelta /\ x <= MaxCoord + MaxDelta

\* lines 131-199: what setViewSize does to the frames when rect differs from the
\* container's frame
ResizeTo(c, rect) ==
    LET widthDelta == getWidth(rect) - getWidth(size[c])
        heightDelta == getHeight(rect) - getHeight(size[c])
        n == getNbViews(c)
    IN
    /\ size' = [size EXCEPT ![c] = rect]
    /\ IF widthDelta # 0 \/ heightDelta # 0
       THEN /\ n > 0 /\ kAutosizeColumn \in cAutosize[c] => widthDelta % n = 0
            /\ n > 0 /\ kAutosizeRow \in cAutosize[c] => heightDelta % n = 0
            /\ \E st \in {ResizeLoop(NodeSeq(c),
                             [vs |-> viewSize, ms |-> mouseableArea, dead |-> FALSE],
                             cAutosize[c], 0, widthDelta, heightDelta, n)} :
                  /\ \A v \in Views : InCap(st.vs[v]) /\ InCap(st.ms[v])
                  /\ viewSize' = st.vs
                  /\ mouseableArea' = st.ms
                  /\ deadUse' = st.dead
       ELSE UNCHANGED <<viewSize, mouseableArea, deadUse>>

\* void CViewContainer::setViewSize (const CRect &rect, bool invalid)
SetViewSize(c, rect) ==
    /\ ~deadUse
    /\ UNCHANGED nestVars
    /\ IF rect = size[c]
       THEN /\ UNCHANGED <<size, viewSize, mouseableArea, deadUse>>
            /\ last' = LastRec("setViewSize", c, Null, Null, FALSE)
       ELSE /\ ResizeTo(c, rect)
            /\ last' = LastRec("setViewSize", c, Null, Null, TRUE)
    /\ UNCHANGED <<listVars, viewVars, isAttached, captureVars, visible, mouseEnabled,
                   transparent, autosizeFlags, cAutosize, countVars>>

\* ------------------------------------- one attached container that is resized
\* the autosize flags of the children, two ways
FlagsA(v) ==
    CASE v % 3 = 1 -> {kAutosizeRight}
      [] v % 3 = 2 -> {kAutosizeLeft, kAutosizeRight}
      [] OTHER -> {kAutosizeLeft}
FlagsB(v) ==
    CASE v % 3 = 1 -> {kAutosizeLeft, kAutosizeRight, kAutosizeTop, kAutosizeBottom}
      [] v % 3 = 2 -> {kAutosizeRight, kAutosizeBottom}
      [] OTHER -> {}

Sizes ==
    {Rect(1, 1, 1 + w, 1 + h) :
        w \in (MaxCoord - MaxDelta)..(MaxCoord + MaxDelta), h \in {MaxCoord, MaxCoord + 1}}

InitSize ==
    /\ InitList
    /\ InitFlat
    /\ visible = [v \in Views |-> TRUE]
    /\ mouseEnabled = [v \in Views |-> TRUE]
    /\ transparent = [v \in Views |-> FALSE]
    /\ viewSize = [v \in Views |-> ChildArea(v)]
    /\ mouseableArea = [v \in Views |-> ChildArea(v)]
    /\ autosizeFlags \in {[v \in Views |-> FlagsA(v)], [v \in Views |-> FlagsB(v)]}
    /\ size = [c \in Containers |-> MouseOrigin]
    /\ cAutosize = [c \in Containers |-> {}]
    /\ isAttached = [c \in Containers |-> TRUE]
    /\ last = NoCall

NextSize ==
    \/ \E v \in SmallViews : AddView(Main, v)
    \/ \E rect \in Sizes : SetViewSize(Main, rect)

SpecSize == InitSize /\ [][NextSize]_vars

\* --------------------------------------------------------------- sizeToFit
\* line 230: CRect bounds (50000, 50000, -50000, -50000)
kFarBound == 50000
EmptyBounds == Rect(kFarBound, kFarBound, -kFarBound, -kFarBound)

\* lines 232-243: one pass of the loop, the frame of a visible child widens bounds
GrowBounds(bounds, v) ==
    LET vs == viewSize[v]
    IN IF visible[v]
       THEN Rect(IF vs.left < bounds.left THEN vs.left ELSE bounds.left,
                 IF vs.top < bounds.top THEN vs.top ELSE bounds.top,
                 IF vs.right > bounds.right THEN vs.right ELSE bounds.right,
                 IF vs.bottom > bounds.bottom THEN vs.bottom ELSE bounds.bottom)
       ELSE bounds

\* lines 231-244: FOREACHSUBVIEW over the nodes ns
RECURSIVE FitBounds(_, _)
FitBounds(ns, bounds) ==
    IF ns = <<>> THEN bounds
    ELSE FitBounds(Tail(ns), GrowBounds(bounds, pView[Head(ns)]))

\* lines 246-248: the frame the container gives itself
FitSize(c) ==
    LET bounds == FitBounds(NodeSeq(c), EmptyBounds)
    IN [size[c] EXCEPT !.right = size[c].left + bounds.right + bounds.left,
                       !.bottom = size[c].top + bounds.bottom + bounds.top]

\* faulty variant of FitRefused: only a container that is both is left alone
FitRefusedBoth(c) == kAutosizeColumn \in cAutosize[c] /\ kAutosizeRow \in cAutosize[c]
\* lines 224-226: treatAsColumn || treatAsRow
FitRefused(c) == kAutosizeColumn \in cAutosize[c] \/ kAutosizeRow \in cAutosize[c]

\* bool CViewContainer::sizeToFit ()
SizeToFit(c) ==
    /\ ~deadUse
    /\ UNCHANGED <<pParentView, cVisible, asView, wantsFocus, focusView, listener,
                   bDirty, cDirty, alphaValue>>
    /\ IF FitRefused(c)
       THEN /\ UNCHANGED <<size, viewSize, mouseableArea, cMouseableArea, deadUse>>
            /\ last' = LastRec("sizeToFit", c, Null, Null, FALSE)
       ELSE IF AnyDead(NodeSeq(c))
       THEN /\ deadUse' = TRUE
            /\ UNCHANGED <<size, viewSize, mouseableArea, cMouseableArea>>
            /\ last' = LastRec("sizeToFit", c, Null, Null, TRUE)
       ELSE /\ ResizeTo(c, FitSize(c))
            /\ cMouseableArea' = [cMouseableArea EXCEPT ![c] = FitSize(c)]
            /\ last' = LastRec("sizeToFit", c, Null, Null, TRUE)
    /\ UNCHANGED <<listVars, viewVars, isAttached, captureVars, visible, mouseEnabled,
                   transparent, autosizeFlags, cAutosize, countVars>>

\* ------------------------- one attached container that fits itself to its children
\* placements of a child: every frame with edges in a small range
Placements ==
    {Rect(l, t, l + w, t + 1) : l \in -1..1, t \in 0..1, w \in 1..2}

InitFit ==
    /\ InitList
    /\ InitFlat
    /\ visible = [v \in Views |-> TRUE]
    /\ mouseEnabled = [v \in Views |-> TRUE]
    /\ transparent = [v \in Views |-> FALSE]
    /\ viewSize \in {[v \in Views |-> IF v \in SmallViews THEN f[v] ELSE DefaultRect] :
                        f \in [SmallViews -> Placements]}
    /\ mouseableArea = viewSize
    /\ autosizeFlags = [v \in Views |-> {}]
    /\ size = [c \in Containers |-> MouseOrigin]
    /\ cAutosize \in {[c \in Containers |-> f] : f \in {{}, {kAutosizeRow}, {kAutosizeColumn}}}
    /\ isAttached = [c \in Containers |-> TRUE]
    /\ last = NoCall

NextFit ==
    \/ \E v \in SmallViews : AddView(Main, v)
    \/ \E v \in SmallViews, state \in BOOLEAN : SetVisible(v, state)
    \/ SizeToFit(Main)

SpecFit == InitFit /\ [][NextFit]_vars

\* ------------------------- a container that lays its children out in columns
\* or rows; the mouseable area of a child is the left half of its frame
ColumnSizes ==
    {Rect(1, 1, 1 + w, 1 + h) :
        w \in {MaxCoord - 1, MaxCoord, MaxCoord + 2}, h \in {MaxCoord, MaxCoord + 2}}

InitColumn ==
    /\ InitList
    /\ InitFlat
    /\ visible = [v \in Views |-> TRUE]
    /\ mouseEnabled = [v \in Views |-> TRUE]
    /\ transparent = [v \in Views |-> FALSE]
    /\ viewSize = [v \in Views |-> ChildArea(v)]
    /\ mouseableArea = [v \in Views |-> setWidth(ChildArea(v), 1)]
    /\ autosizeFlags \in {[v \in Views |-> FlagsA(v)], [v \in Views |-> FlagsB(v)]}
    /\ size = [c \in Containers |-> MouseOrigin]
    /\ cAutosize \in {[c \in Containers |-> f] :
                         f \in {{kAutosizeColumn}, {kAutosizeRow},
                                {kAutosizeColumn, kAutosizeRow}}}
    /\ isAttached = [c \in Containers |-> TRUE]
    /\ last = NoCall

NextColumn ==
    \/ \E v \in SmallViews : AddView(Main, v)
    \/ \E rect \in ColumnSizes : SetViewSize(Main, rect)
    \/ SizeToFit(Main)

SpecColumn == InitColumn /\ [][NextColumn]_vars

\* ------------------------------------------------ frameToLocal / localToFrame
\* faulty variant of frameToLocal: the parents are not asked
frameToLocalOwnOnly(c, point) == OffsetPoint(point, -size[c].left, -size[c].top)
\* CPoint& CViewContainer::frameToLocal (CPoint& point) const
RECURSIVE frameToLocal(_, _)
frameToLocal(c, point) ==
    LET p == OffsetPoint(point, -size[c].left, -size[c].top)
    IN IF pParentView[c] # Null THEN frameToLocal(pParentView[c], p) ELSE p

\* CPoint& CViewContainer::localToFrame (CPoint& point) const
RECURSIVE localToFrame(_, _)
localToFrame(c, point) ==
    LET p == OffsetPoint(point, size[c].left, size[c].top)
    IN IF pParentView[c] # Null THEN localToFrame(pParentView[c], p) ELSE p

\* a call of frameToLocal: arg is the point passed, where2 the point returned
FrameToLocal(c, point) ==
    /\ last' = [LastRec("frameToLocal", c, Null, point, TRUE)
                   EXCEPT !.where2 = frameToLocal(c, point)]
    /\ UNCHANGED <<listVars, viewVars, isAttached, captureVars, geomVars, nestVars,
                   deadUse, countVars>>

\* a call of localToFrame
LocalToFrame(c, point) ==
    /\ last' = [LastRec("localToFrame", c, Null, point, TRUE)
                   EXCEPT !.where2 = localToFrame(c, point)]
    /\ UNCHANGED <<listVars, viewVars, isAttached, captureVars, geomVars, nestVars,
                   deadUse, countVars>>

\* ------------------------------------------------------------- invalidRect
\* CRect::bound: the rectangle is cut to rect, and never left inverted
Bound(r, rect) ==
    LET l == IF r.left < rect.left THEN rect.left ELSE r.left
        t == IF r.top < rect.top THEN rect.top ELSE r.top
        rr == IF r.right > rect.right THEN rect.right ELSE r.right
        b == IF r.bottom > rect.bottom THEN rect.bottom ELSE r.bottom
    IN Rect(l, t, IF rr < l THEN l ELSE rr, IF b < t THEN t ELSE b)
\* CRect::isEmpty
isEmpty(r) == r.right - r.left <= 0 \/ r.bottom - r.top <= 0

\* what the frame is not handed: nothing
NoRect == Rect(0, 0, 0, 0)

\* faulty variant of invalidRect: an invisible container forwards, too
RECURSIVE invalidRectUnseen(_, _)
invalidRectUnseen(c, rect) ==
    LET _rect == Bound(OffsetRect(rect, size[c].left, size[c].top), size[c])
    IN IF isEmpty(_rect) THEN NoRect
       ELSE IF pParentView[c] # Null THEN invalidRectUnseen(pParentView[c], _rect)
       ELSE IF HasParentFrame(c) THEN _rect
       ELSE NoRect
\* void CViewContainer::invalidRect (const CRect& rect): the rectangle
\* pParentFrame->invalidRect is called with at the end of the chain, NoRect
\* when the call never gets there
RECURSIVE invalidRect(_, _)
invalidRect(c, rect) ==
    LET _rect == Bound(OffsetRect(rect, size[c].left, size[c].top), size[c])
    IN IF ~cVisible[c] THEN NoRect
       ELSE IF isEmpty(_rect) THEN NoRect
       ELSE IF pParentView[c] # Null THEN invalidRect(pParentView[c], _rect)
       ELSE IF HasParentFrame(c) THEN _rect
       ELSE NoRect

\* a call of invalidRect: arg is the rectangle passed, where2 what the frame got
InvalidRect(c, rect) ==
    /\ last' = [LastRec("invalidRect", c, Null, rect, TRUE)
                   EXCEPT !.where2 = invalidRect(c, rect)]
    /\ UNCHANGED <<listVars, viewVars, isAttached, captureVars, geomVars, nestVars,
                   deadUse, countVars>>

\* ----------------------------------------------------------- getVisibleSize
\* the frame all containers lie in: CFrame::getSize
frameSize == Rect(0, 0, MaxCoord + 1, MaxCoord + 1)
\* getVisibleSize of the frame, a container with pParentFrame == this
frameVisibleSize(rect) ==
    OffsetRect(Bound(OffsetRect(rect, frameSize.left, frameSize.top), frameSize),
               -frameSize.left, -frameSize.top)
\* faulty variant of getVisibleSize: what the container lies in is not asked
getVisibleSizeOwn(c, rect) ==
    OffsetRect(Bound(OffsetRect(rect, size[c].left, size[c].top), size[c]),
               -size[c].left, -size[c].top)
\* CRect CViewContainer::getVisibleSize (const CRect rect) const
RECURSIVE getVisibleSize(_, _)
getVisibleSize(c, rect) ==
    LET result == Bound(OffsetRect(rect, size[c].left, size[c].top), size[c])
        outer == IF pParentView[c] # Null THEN getVisibleSize(pParentView[c], result)
                 ELSE IF HasParentFrame(c) THEN frameVisibleSize(result)
                 ELSE result
    IN OffsetRect(outer, -size[c].left, -size[c].top)

\* a call of getVisibleSize: arg is the rectangle passed, where2 the one returned
GetVisibleSize(c, rect) ==
    /\ last' = [LastRec("getVisibleSize", c, Null, rect, TRUE)
                   EXCEPT !.where2 = getVisibleSize(c, rect)]
    /\ UNCHANGED <<listVars, viewVars, isAttached, captureVars, geomVars, nestVars,
                   deadUse, countVars>>

\* CView::setVisible of a container
SetContainerVisible(c, state) ==
    /\ cVisible' = [cVisible EXCEPT ![c] = state]
    /\ last' = LastRec("setVisible", c, Null, state, TRUE)
    /\ UNCHANGED <<listVars, viewVars, isAttached, captureVars, geomVars, pParentView,
                   asView, wantsFocus, focusView, listener, paintVars, deadUse, countVars>>

\* ------------------------------------- containers nested in one another
\* container c + 1 lies in container c; container 1 lies in the frame
Chain == [c \in Containers |-> IF c = 1 THEN Null ELSE c - 1]
Origins == {Rect(l, t, l + MaxCoord, t + MaxCoord) : l \in {-1, 1}, t \in 0..1}

InitNest ==
    /\ InitList
    /\ visible = [v \in Views |-> TRUE]
    /\ mouseEnabled = [v \in Views |-> TRUE]
    /\ transparent = [v \in Views |-> FALSE]
    /\ viewSize = [v \in Views |-> ChildArea(v)]
    /\ mouseableArea = [v \in Views |-> ChildArea(v)]
    /\ autosizeFlags = [v \in Views |-> {}]
    /\ cAutosize = [c \in Containers |-> {}]
    /\ pParentView = Chain
    /\ cVisible = [c \in Containers |-> TRUE]
    /\ asView = [c \in Containers |-> Null]
    /\ wantsFocus = [v \in Views |-> FALSE]
    /\ focusView = Null
    /\ listener = [v \in Views |-> FALSE]
    /\ InitClean
    /\ size \in [Containers -> Origins]
    /\ isAttached = [c \in Containers |-> TRUE]
    /\ last = NoCall

\* the client passes a new point, or to frameToLocal the point variable that
\* localToFrame has just changed
Returned == IF last.op = "localToFrame" THEN {last.where2} ELSE {}
\* the rectangles invalidated: inside the container, across its edges, outside
DirtyRects ==
    {Rect(x, y, x + w, y + 1) : x \in {-1, 0, MaxCoord - 1}, y \in {0, MaxCoord}, w \in 1..2}

NextNest ==
    \/ \E c \in Containers, p \in Points : LocalToFrame(c, p)
    \/ \E c \in Containers, p \in Points \cup Returned : FrameToLocal(c, p)
    \/ \E c \in Containers, rect \in DirtyRects : InvalidRect(c, rect)
    \/ \E c \in Containers, state \in BOOLEAN : SetContainerVisible(c, state)

SpecNest == InitNest /\ [][NextNest]_vars

\* the rectangles asked about: inside the container, across its edges, outside
VisibleRects ==
    {Rect(x, y, x + w, y + 1) : x \in {-2, -1, 0, MaxCoord - 1, MaxCoord}, y \in {0, MaxCoord},
                                w \in 1..2}

NextVisible ==
    \/ \E c \in Containers, rect \in VisibleRects : GetVisibleSize(c, rect)
    \/ \E c \in Containers, state \in BOOLEAN : SetContainerVisible(c, state)

SpecVisible == InitNest /\ [][NextVisible]_vars

\* ------------------------------------------------------ advanceNextFocusView
\* dynamic_cast<CViewContainer*> (pV): the view is a container
IsContainer(v) == \E d \in Containers : asView[d] = v
ContainerOf(v) == CHOOSE d \in Containers : asView[d] = v

\* line 1116: the child takes the focus
TakesFocus(v) == wantsFocus[v] /\ mouseEnabled[v] /\ visible[v]

\* FOREACHSUBVIEW_REVERSE (reverse): the first node (pSv = Null) and the node after pSv
Step(c, pSv, reverse) ==
    IF pSv = Null THEN (IF reverse THEN pLastView[c] ELSE pFirstView[c])
    ELSE (IF reverse THEN pPrevious[pSv] ELSE pNext[pSv])

\* faulty variant of AdvanceFrom: a child container is not searched
RECURSIVE AdvanceFromFlat(_, _, _, _, _)
AdvanceFromFlat(c, pSv, oldFocus, foundOld, reverse) ==
    IF pSv = Null THEN [ret |-> FALSE, focus |-> Null]
    ELSE LET pV == pView[pSv]
             next == Step(c, pSv, reverse)
         IN IF oldFocus # Null /\ ~foundOld
            THEN AdvanceFromFlat(c, next, oldFocus, oldFocus = pV, reverse)
            ELSE IF TakesFocus(pV) THEN [ret |-> TRUE, focus |-> pV]
            ELSE AdvanceFromFlat(c, next, oldFocus, foundOld, reverse)
\* advanceNextFocusView, lines 1104-1128: the loop of container c from node pSv on;
\* the result is whether the focus was set and the view it was set to
RECURSIVE AdvanceFrom(_, _, _, _, _)
AdvanceFrom(c, pSv, oldFocus, foundOld, reverse) ==
    IF pSv = Null THEN [ret |-> FALSE, focus |-> Null]
    ELSE LET pV == pView[pSv]
             next == Step(c, pSv, reverse)
         IN IF oldFocus # Null /\ ~foundOld
            THEN AdvanceFrom(c, next, oldFocus, oldFocus = pV, reverse)
            ELSE IF TakesFocus(pV) THEN [ret |-> TRUE, focus |-> pV]
            ELSE IF IsContainer(pV)
            THEN LET inner == AdvanceFrom(ContainerOf(pV), Step(ContainerOf(pV), Null, reverse),
                                          Null, FALSE, reverse)
                 IN IF inner.ret THEN inner
                    ELSE AdvanceFrom(c, next, oldFocus, foundOld, reverse)
            ELSE AdvanceFrom(c, next, oldFocus, foundOld, reverse)

\* bool CViewContainer::advanceNextFocusView (CView* oldFocus, bool reverse);
\* getFrame ()->setFocusView (pV) sets the focus view of the frame the container
\* is attached to: the call is followed for containers in a frame
AdvanceNextFocusView(c, oldFocus, reverse) ==
    /\ ~deadUse
    /\ HasParentFrame(c)
    /\ \E r \in {AdvanceFrom(c, Step(c, Null, reverse), oldFocus, FALSE, reverse)} :
          /\ focusView' = IF r.ret THEN r.focus ELSE focusView
          /\ last' = LastRec("advanceNextFocusView", c, oldFocus, reverse, r.ret)
    /\ UNCHANGED <<listVars, viewVars, isAttached, captureVars, geomVars, pParentView,
                   cVisible, asView, wantsFocus, listener, paintVars, deadUse, countVars>>

\* --------------------- a container with a container among its children, in a frame
Box == CHOOSE c \in Containers : c # Main
\* the view that is the container Box
BoxView == NViews

\* Box was added to Main, both are attached; which views want the focus varies,
\* and the first view may be invisible or the second one not mouse-enabled
InitFocus ==
    /\ pFirstView = [c \in Containers |-> IF c = Main THEN 1 ELSE Null]
    /\ pLastView = [c \in Containers |-> IF c = Main THEN 1 ELSE Null]
    /\ pView = [n \in Nodes |-> IF n = 1 THEN BoxView ELSE Null]
    /\ pNext = [n \in Nodes |-> Null]
    /\ pPrevious = [n \in Nodes |-> Null]
    /\ nbReference = [v \in Views |-> IF v = BoxView THEN 2 ELSE 1]
    /\ viewAttached = [v \in Views |-> v = BoxView]
    /\ mouseDownView = [c \in Containers |-> Null]
    /\ currentDragView = [c \in Containers |-> Null]
    /\ gesture = [c \in Containers |-> Null]
    /\ entered = {}
    /\ deadUse = FALSE
    /\ nAdded = [v \in Views |-> 0]
    /\ nRemoved = [v \in Views |-> 0]
    /\ InitNoGame
    /\ \E off \in 0..2 :
          /\ visible = [v \in Views |-> v # 1 \/ off # 1]
          /\ mouseEnabled = [v \in Views |-> v # 2 \/ off # 2]
    /\ transparent = [v \in Views |-> FALSE]
    /\ viewSize = [v \in Views |-> DefaultRect]
    /\ mouseableArea = [v \in Views |-> DefaultRect]
    /\ autosizeFlags = [v \in Views |-> {}]
    /\ size = [c \in Containers |-> DefaultRect]
    /\ cAutosize = [c \in Containers |-> {}]
    /\ pParentView = [c \in Containers |-> IF c = Box THEN Main ELSE Null]
    /\ cVisible = [c \in Containers |-> TRUE]
    /\ asView = [c \in Containers |-> IF c = Box THEN BoxView ELSE Null]
    /\ wantsFocus \in {[v \in Views |-> v \in S] : S \in SUBSET SmallViews}
    /\ focusView = Null
    /\ listener = [v \in Views |-> FALSE]
    /\ InitClean
    /\ isAttached = [c \in Containers |-> TRUE]
    /\ last = NoCall

NextFocus ==
    \/ \E c \in {Main, Box}, v \in SmallViews : AddView(c, v)
    \/ \E k \in {0, MaxNodes} : ChangeViewZOrder(Main, BoxView, k)
    \/ \E oldFocus \in ViewOrNull, reverse \in BOOLEAN :
          AdvanceNextFocusView(Main, oldFocus, reverse)

SpecFocus == InitFocus /\ [][NextFocus]_vars

\* CView::setVisible of the child container Box
SetBoxVisible(state) ==
    /\ ~deadUse
    /\ visible' = [visible EXCEPT ![BoxView] = state]
    /\ cVisible' = [cVisible EXCEPT ![Box] = state]
    /\ last' = LastRec("setVisible", Box, BoxView, state, TRUE)
    /\ UNCHANGED <<listVars, viewVars, isAttached, captureVars, mouseEnabled, transparent,
                   viewSize, mouseableArea, autosizeFlags, size, cAutosize, pParentView,
                   asView, wantsFocus, focusView, listener, paintVars, deadUse, countVars>>

\* the child container may be hidden
NextFocusHidden ==
    \/ \E c \in {Main, Box}, v \in SmallViews : AddView(c, v)
    \/ \E state \in BOOLEAN : SetBoxVisible(state)
    \/ \E oldFocus \in ViewOrNull, reverse \in BOOLEAN :
          AdvanceNextFocusView(Main, oldFocus, reverse)

SpecFocusHidden == InitFocus /\ [][NextFocusHidden]_vars

\* ------------------------------------------------------- copy constructor
\* the views that are no object: destroyed or never created, and held nowhere
FreeViews ==
    {v \in Views :
        /\ nbReference[v] = 0
        /\ \A n \in Nodes : pView[n] # v
        /\ \A c \in Containers :
              mouseDownView[c] # v /\ currentDragView[c] # v /\ gesture[c] # v}

\* faulty variant of CopyCapture: the capture is copied like the colours
CopyCaptureKept(ref) == ref
\* lines 98-99: currentDragView (0), mouseDownView (0)
CopyCapture(ref) == Null

\* (*it)->newCopy (): a new object, the copy of the child
newCopy(v, free) == Head(free)

\* lines 101-106: for every child of the original, in list order, addView of its
\* copy. The copy is a new object with one reference and not attached, so addView
\* lets it in, and the new container is not attached, so nothing is notified.
\* st = [first, lastv, next, prev, view, rc, from]; from maps a copy to its original
RECURSIVE CopyLoop(_, _, _, _)
CopyLoop(kids, free, nodes, st) ==
    IF kids = <<>> THEN st
    ELSE LET nv == newCopy(Head(kids), free)
             pSv == Head(nodes)                          \* new CCView
             ns == Walk(st.next, st.first)
             tail == ns[Len(ns)]                         \* while (pV->pNext) pV = pV->pNext
         IN CopyLoop(Tail(kids), Tail(free), Tail(nodes),
                [first |-> IF st.first = Null THEN pSv ELSE st.first,
                 lastv |-> pSv,
                 next |-> IF st.first = Null THEN st.next
                          ELSE [st.next EXCEPT ![tail] = pSv],
                 prev |-> IF st.first = Null THEN st.prev
                          ELSE [st.prev EXCEPT ![pSv] = tail],
                 view |-> [st.view EXCEPT ![pSv] = nv],
                 rc |-> [st.rc EXCEPT ![nv] = 2],        \* new: 1, CCView::CCView: 2
                 from |-> [st.from EXCEPT ![nv] = Head(kids)]])

\* what a copy has of its original: f is a field of the views
CopyField(f, from) == [v \in Views |-> IF from[v] # Null THEN f[from[v]] ELSE f[v]]

\* CViewContainer::CViewContainer (const CViewContainer& v): d is the new
\* container, c the original
CopyConstruct(d, c) ==
    LET kids == Children(c)
        free == AscSeq(FreeViews)
        nodes == AscSeq(FreeNodes)
    IN
    /\ ~deadUse
    /\ d # c
    \* d is a new object: in no state but that of construction
    /\ pFirstView[d] = Null /\ ~isAttached[d]
    /\ mouseDownView[d] = Null /\ currentDragView[d] = Null /\ gesture[d] = Null
    /\ pParentView[d] = Null /\ asView[d] = Null
    /\ \A e \in Containers : pParentView[e] # d
    /\ IF AnyDead(NodeSeq(c))
       THEN /\ deadUse' = TRUE                           \* newCopy of a destroyed child
            /\ last' = LastRec("copy", d, Null, c, FALSE)
            /\ UNCHANGED <<listVars, nbReference, captureVars, geomVars, nestVars>>
       ELSE /\ Len(kids) <= Len(free)
            /\ Len(kids) <= Len(nodes)
            /\ \E st \in {CopyLoop(kids, free, nodes,
                             [first |-> Null, lastv |-> Null, next |-> pNext,
                              prev |-> pPrevious, view |-> pView, rc |-> nbReference,
                              from |-> [v \in Views |-> Null]])} :
                  /\ SetList(d, [first |-> st.first, lastv |-> st.lastv,
                                  next |-> st.next, prev |-> st.prev], st.view)
                  /\ nbReference' = st.rc
                  /\ visible' = CopyField(visible, st.from)
                  /\ mouseEnabled' = CopyField(mouseEnabled, st.from)
                  /\ transparent' = CopyField(transparent, st.from)
                  /\ viewSize' = CopyField(viewSize, st.from)
                  /\ mouseableArea' = CopyField(mouseableArea, st.from)
                  /\ autosizeFlags' = CopyField(autosizeFlags, st.from)
                  /\ wantsFocus' = CopyField(wantsFocus, st.from)
                  /\ listener' = CopyField(listener, st.from)
            /\ size' = [size EXCEPT ![d] = size[c]]                 \* CView (v)
            /\ cAutosize' = [cAutosize EXCEPT ![d] = cAutosize[c]]
            /\ cVisible' = [cVisible EXCEPT ![d] = cVisible[c]]
            /\ mouseDownView' = [mouseDownView EXCEPT ![d] = CopyCapture(mouseDownView[c])]
            /\ currentDragView' =
                  [currentDragView EXCEPT ![d] = CopyCapture(currentDragView[c])]
            /\ deadUse' = FALSE
            /\ last' = LastRec("copy", d, Null, c, TRUE)
            /\ cMouseableArea' = [cMouseableArea EXCEPT ![d] = cMouseableArea[c]]
            /\ UNCHANGED <<gesture, entered, pParentView, asView, focusView, bDirty, cDirty, alphaValue>>
    /\ UNCHANGED <<viewAttached, isAttached, countVars>>

\* every child the point hits handles the mouse click
HandledBy(S) == [v \in S |-> kMouseEventHandled]

\* the original, attached or not, is built and captured by the mouse and a drag;
\* the copy is made of it and destroyed again
InitCopy ==
    /\ InitList
    /\ InitFlat
    /\ InitGeomMouse
    /\ isAttached \in {[c \in Containers |-> c = Main /\ b] : b \in BOOLEAN}
    /\ last = NoCall

NextCopy ==
    \/ \E v \in SmallViews : AddView(Main, v)
    \/ \E v \in SmallViews : RemoveView(Main, v, TRUE)
    \/ \E p \in Points : OnMouseDown(Main, p, HandledBy(HitChildren(Main, ToLocal(Main, p))))
    \/ \E p \in Points : OnDragEnter(Main, p)
    \/ CopyConstruct(Box, Main)
    \/ RemoveAll(Box, TRUE)                                \* ~CViewContainer

SpecCopy == InitCopy /\ [][NextCopy]_vars

\* ----------------------- one container in a frame, mouse clicks and the wheel
\* the first view may be invisible or not mouse-enabled and may be opaque,
\* all views or none want the focus, and the second view may be a control with
\* a listener
InitDown ==
    /\ InitList
    /\ pParentView = [c \in Containers |-> Null]
    /\ cVisible = [c \in Containers |-> TRUE]
    /\ asView = [c \in Containers |-> Null]
    /\ focusView = Null
    /\ \E a \in 0..1, b \in 0..1 :
          /\ a = 0 \/ b = 0
          /\ visible = [v \in Views |-> v # a]
          /\ mouseEnabled = [v \in Views |-> v # b]
    /\ transparent \in {[v \in Views |-> v # t] : t \in 0..1}
    /\ wantsFocus \in {[v \in Views |-> f] : f \in BOOLEAN}
    /\ listener \in {[v \in Views |-> v = l] : l \in {0, 2}}
    /\ InitClean
    /\ viewSize = [v \in Views |-> ChildArea(v)]
    /\ mouseableArea = [v \in Views |-> ChildArea(v)]
    /\ autosizeFlags = [v \in Views |-> {}]
    /\ size = [c \in Containers |-> MouseOrigin]
    /\ cAutosize = [c \in Containers |-> {}]
    /\ isAttached = [c \in Containers |-> TRUE]
    /\ last = NoCall

NextDown ==
    \/ \E v \in SmallViews : AddView(Main, v)
    \/ \E v \in SmallViews : RemoveView(Main, v, FALSE)
    \/ \E p \in Points, mc \in {<<FALSE, 1>>, <<TRUE, 0>>, <<TRUE, 1>>} :
          \E resp \in [HitChildren(Main, ToLocal(Main, p)) -> MouseResults] :
             OnMouseDownButtons(Main, p, resp, mc[1], mc[2])
    \/ \E p \in Points : \E resp \in [WheelChildren(Main, ToLocal(Main, p)) -> BOOLEAN] :
          OnWheel(Main, p, resp, [v \in Views |-> kStay], FALSE)

SpecDown == InitDown /\ [][NextDown]_vars

\* --------------------------- onMouseDown whose children change the list meanwhile
\* onMouseDown, lines 906-930, with children that may take themselves out of the
\* container inside their onMouseDown. CBaseObjectGuard crg (pV), line 915, holds
\* one reference from before the call to the end of the loop body; a child whose
\* count reaches zero under the guard is destroyed, and the reads of lines 923
\* and 927 and the guard's own forget () then use a destroyed object (st.dead).
\* The step to the next node reads pSv->pPrevious as in onWheel.
RECURSIVE MouseDownDuring(_, _, _, _, _, _, _)
MouseDownDuring(c, pSv, where2, resp, reentry, stale, st) ==
    IF pSv = Null THEN [st EXCEPT !.ret = kMouseEventNotHandled]
    ELSE LET v == st.view[pSv]
             before == st.prev[pSv]
         IN IF st.rc[v] = 0 THEN [st EXCEPT !.dead = TRUE, !.ret = kMouseEventNotHandled]
            ELSE IF Qualifies(v, where2)
            THEN LET guarded == [st EXCEPT !.rc = Remember(@, v),
                                           !.visited = Append(@, v),
                                           !.focus = IF wantsFocus[v] THEN v ELSE @]
                     called == Callback(c, guarded, v, reentry[v])
                     gone == called.rc[v] = 0
                     left == [called EXCEPT !.rc = Forget(@, v), !.dead = @ \/ gone]
                 IN IF gone THEN [left EXCEPT !.ret = resp[v]]
                    ELSE IF resp[v] # kMouseEventNotHandled /\ resp[v] # kMouseEventNotImplemented
                    THEN [left EXCEPT !.ret = resp[v],
                                      !.mdv = IF called.rc[v] > 1 /\ resp[v] = kMouseEventHandled
                                              THEN v ELSE @]
                    ELSE IF ~transparent[v] THEN [left EXCEPT !.ret = resp[v]]
                    ELSE IF left.view[pSv] = Null
                    THEN MouseDownDuring(c, IF stale THEN before ELSE Null, where2, resp,
                                         reentry, stale, [left EXCEPT !.freed = TRUE])
                    ELSE MouseDownDuring(c, left.prev[pSv], where2, resp, reentry, stale, left)
            ELSE MouseDownDuring(c, before, where2, resp, reentry, stale, st)

\* onMouseDown (where, buttons) with no modifier key held, the children answering
\* resp and doing reentry to the list
OnMouseDownReentrant(c, where, resp, reentry, stale) ==
    /\ ~deadUse
    /\ \E st \in {MouseDownDuring(c, pLastView[c], ToLocal(c, where), resp, reentry, stale,
                                  [first |-> pFirstView[c], lastv |-> pLastView[c],
                                   next |-> pNext, prev |-> pPrevious, view |-> pView,
                                   rc |-> nbReference, att |-> viewAttached,
                                   mdv |-> mouseDownView[c], cdv |-> currentDragView[c],
                                   visited |-> <<>>, freed |-> FALSE, dead |-> FALSE,
                                   focus |-> Null, ret |-> kMouseEventNotHandled])} :
          /\ SetList(c, st, st.view)
          /\ nbReference' = st.rc
          /\ viewAttached' = DropDead(st.att, st.rc)
          /\ mouseDownView' = [mouseDownView EXCEPT ![c] = st.mdv]
          /\ currentDragView' = [currentDragView EXCEPT ![c] = st.cdv]
          /\ gesture' = [gesture EXCEPT ![c] = st.mdv]
          /\ entered' = StillAlive(entered, st.rc)
          /\ focusView' = IF st.focus # Null /\ HasParentFrame(c) THEN st.focus ELSE focusView
          /\ deadUse' = (st.dead \/ st.freed \/ (st.focus # Null /\ ~HasParentFrame(c)))
          /\ last' = [op |-> "onMouseDown", c |-> c, v |-> Null, arg |-> where, ret |-> st.ret,
                      target |-> Null, where2 |-> ToLocal(c, where),
                      visited |-> st.visited, freed |-> st.freed,
                      answers |-> [i \in 1..Len(st.visited) |-> resp[st.visited[i]]],
                      removed |-> {v \in SeqRange(st.visited) : reentry[v] # kStay}]
    /\ UNCHANGED <<isAttached, geomVars, countVars>>
    /\ UNCHANGED <<pParentView, cVisible, asView, wantsFocus, listener, paintVars>>

NextReenter ==
    \/ \E v \in SmallViews : AddView(Main, v)
    \/ \E v \in SmallViews, f \in BOOLEAN : RemoveView(Main, v, f)
    \/ \E v \in SmallViews : CreateView(v)
    \/ \E p \in Points, stale \in BOOLEAN :
          \E resp \in [HitChildren(Main, ToLocal(Main, p)) -> MouseResults],
             reentry \in [HitChildren(Main, ToLocal(Main, p)) -> Reentries] :
                OnMouseDownReentrant(Main, p, resp, reentry, stale)
    \/ \E p \in Points : OnMouseUp(Main, p)

SpecReenter == InitDown /\ [][NextReenter]_vars

\* ------------------------------------------------- dirty flags and painting
\* lines 1137-1138: CRect viewSize (size); viewSize.offset (-size.left, -size.top)
LocalBounds(c) == OffsetRect(size[c], -size[c].left, -size[c].top)

RECURSIVE isDirty(_)
\* pV->isDirty (): a child that is a container answers with its own isDirty
ViewIsDirty(v) == IF IsContainer(v) THEN isDirty(ContainerOf(v)) ELSE bDirty[v]
\* faulty variant of Dirties: the frame of the child is not looked at
DirtiesAnywhere(c, v) == ViewIsDirty(v) /\ visible[v]
\* lines 1141-1146: the child makes the container dirty
Dirties(c, v) ==
    /\ ViewIsDirty(v)
    /\ visible[v]
    /\ LET r == Bound(viewSize[v], LocalBounds(c))
       IN getWidth(r) > 0 /\ getHeight(r) > 0
\* bool CViewContainer::isDirty () const
isDirty(c) ==
    \/ cDirty[c]
    \/ \E i \in 1..Len(Children(c)) : Dirties(c, Children(c)[i])

\* a call of isDirty
IsDirty(c) ==
    /\ ~deadUse
    /\ last' = LastRec("isDirty", c, Null, Null, isDirty(c))
    /\ UNCHANGED <<listVars, viewVars, isAttached, captureVars, geomVars, nestVars,
                   deadUse, countVars>>

\* CView::setDirty of a child that is no container
SetDirty(v, state) ==
    /\ ~deadUse
    /\ nbReference[v] > 0
    /\ bDirty' = [bDirty EXCEPT ![v] = state]
    /\ last' = LastRec("setDirty", Main, v, state, TRUE)
    /\ UNCHANGED <<listVars, viewVars, isAttached, captureVars, geomVars, pParentView,
                   cVisible, asView, wantsFocus, focusView, listener, cDirty, alphaValue, cMouseableArea,
                   deadUse, countVars>>

\* CView::setDirty of a container
SetContainerDirty(c, state) ==
    /\ ~deadUse
    /\ cDirty' = [cDirty EXCEPT ![c] = state]
    /\ last' = LastRec("setDirty", c, Null, state, TRUE)
    /\ UNCHANGED <<listVars, viewVars, isAttached, captureVars, geomVars, pParentView,
                   cVisible, asView, wantsFocus, focusView, listener, bDirty, alphaValue, cMouseableArea,
                   deadUse, countVars>>

\* what invalidateDirtyViews does: the children whose isDirty it asked for
\* (asked) and the calls it made: <<"invalidRect", p, rect>> is invalidRect
\* (rect) of container p, or of the frame when p is Null; <<"invalid", v>> is
\* invalid () of the child v
NoCalls == [asked |-> <<>>, calls |-> <<>>]
\* faulty variant of InvalidatesChild: the child need not be visible
InvalidatesUnseen(v) == ViewIsDirty(v)
\* line 621: the child is invalidated
InvalidatesChild(v) == ViewIsDirty(v) /\ visible[v]

RECURSIVE invalidateDirtyViews(_)
\* lines 620-628, from node n on
RECURSIVE InvalidateFrom(_, _)
InvalidateFrom(c, n) ==
    IF n = Null THEN NoCalls
    ELSE LET pV == pView[n]
             own == IF ~InvalidatesChild(pV) THEN NoCalls
                    ELSE IF IsContainer(pV) THEN invalidateDirtyViews(ContainerOf(pV))
                    ELSE [asked |-> <<>>, calls |-> << <<"invalid", pV>> >>]
             rest == InvalidateFrom(c, pNext[n])
         IN [asked |-> <<pV>> \o own.asked \o rest.asked,
             calls |-> own.calls \o rest.calls]
\* bool CViewContainer::invalidateDirtyViews ()
invalidateDirtyViews(c) ==
    IF ~cVisible[c] THEN NoCalls
    ELSE IF cDirty[c]
         THEN [asked |-> <<>>,
               calls |-> IF pParentView[c] # Null
                         THEN << <<"invalidRect", pParentView[c], size[c]>> >>
                         ELSE IF HasParentFrame(c) THEN << <<"invalidRect", Null, size[c]>> >>
                         ELSE <<>>]
         ELSE InvalidateFrom(c, pFirstView[c])

\* a call of invalidateDirtyViews; CView::invalid clears the dirty flag of the
\* child it is called on
InvalidateDirtyViews(c) ==
    /\ ~deadUse
    /\ \E st \in {invalidateDirtyViews(c)} :
          /\ bDirty' = [v \in Views |->
                           bDirty[v] /\ ~\E i \in 1..Len(st.calls) : st.calls[i] = <<"invalid", v>>]
          /\ last' = [op |-> "invalidateDirtyViews", c |-> c, v |-> Null, arg |-> Null,
                      ret |-> TRUE, target |-> Null, where2 |-> NoPoint,
                      asked |-> st.asked, calls |-> st.calls]
    /\ UNCHANGED <<listVars, viewVars, isAttached, captureVars, geomVars, pParentView,
                   cVisible, asView, wantsFocus, focusView, listener, cDirty, alphaValue, cMouseableArea,
                   deadUse, countVars>>

\* one container in another, both in a frame: the child container lies inside
\* the outer one; one child may be invisible, one may lie right of the bounds;
\* view 1 has the focus
BoxArea == Rect(1, 1, 3, 3)
InitPaint ==
    /\ pFirstView = [c \in Containers |-> IF c = Main THEN 1 ELSE Null]
    /\ pLastView = [c \in Containers |-> IF c = Main THEN 1 ELSE Null]
    /\ pView = [n \in Nodes |-> IF n = 1 THEN BoxView ELSE Null]
    /\ pNext = [n \in Nodes |-> Null]
    /\ pPrevious = [n \in Nodes |-> Null]
    /\ nbReference = [v \in Views |-> IF v = BoxView THEN 2 ELSE 1]
    /\ viewAttached = [v \in Views |-> v = BoxView]
    /\ mouseDownView = [c \in Containers |-> Null]
    /\ currentDragView = [c \in Containers |-> Null]
    /\ gesture = [c \in Containers |-> Null]
    /\ entered = {}
    /\ deadUse = FALSE
    /\ nAdded = [v \in Views |-> 0]
    /\ nRemoved = [v \in Views |-> 0]
    /\ InitNoGame
    /\ \E hidden \in {0, 1, BoxView} :
          /\ visible = [v \in Views |-> v # hidden]
          /\ cVisible = [c \in Containers |-> c # Box \/ hidden # BoxView]
    /\ mouseEnabled = [v \in Views |-> TRUE]
    /\ transparent = [v \in Views |-> TRUE]
    /\ \E out \in {0, 2} :
          viewSize = [v \in Views |-> IF v = BoxView THEN BoxArea
                                      ELSE IF v = out THEN OffsetRect(ChildArea(v), MaxCoord, 0)
                                      ELSE ChildArea(v)]
    /\ mouseableArea = viewSize
    /\ autosizeFlags = [v \in Views |-> {}]
    /\ size = [c \in Containers |-> IF c = Box THEN BoxArea ELSE MouseOrigin]
    /\ cAutosize = [c \in Containers |-> {}]
    /\ pParentView = [c \in Containers |-> IF c = Box THEN Main ELSE Null]
    /\ asView = [c \in Containers |-> IF c = Box THEN BoxView ELSE Null]
    /\ wantsFocus = [v \in Views |-> v = 1]
    /\ focusView = 1
    /\ listener = [v \in Views |-> FALSE]
    /\ bDirty = [v \in Views |-> FALSE]
    /\ cDirty = [c \in Containers |-> FALSE]
    /\ alphaValue = [v \in Views |-> Alpha(1, v)]
    /\ cMouseableArea = size
    /\ isAttached = [c \in Containers |-> TRUE]
    /\ last = NoCall

NextPaint ==
    \/ \E c \in {Main, Box}, v \in SmallViews : AddView(c, v)
    \/ \E v \in SmallViews : SetDirty(v, TRUE)
    \/ \E c \in {Main, Box} : SetContainerDirty(c, TRUE)
    \/ \E c \in {Main, Box} : IsDirty(c)
    \/ \E c \in {Main, Box} : InvalidateDirtyViews(c)

SpecPaint == InitPaint /\ [][NextPaint]_vars

\* ------------------------------------------------------- getViewAt, deep
\* getViewAt, lines 1165-1175, with the deep parameter: a hit child that is a
\* container answers with its own getViewAt (where, deep), where being the point
\* in the coordinates of this container
RECURSIVE ViewAtDeepFrom(_, _, _)
ViewAtDeepFrom(pV, where, deep) ==
    IF pV = Null THEN Null
    ELSE LET v == pView[pV]
         IN IF nbReference[v] = 0 THEN Dangling
            ELSE IF visible[v] /\ IsInside(where, mouseableArea[v])
            THEN IF deep /\ IsContainer(v)
                 THEN ViewAtDeepFrom(pLastView[ContainerOf(v)],
                                     ToLocal(ContainerOf(v), where), deep)
                 ELSE v
            ELSE ViewAtDeepFrom(pPrevious[pV], where, deep)
\* CView* CViewContainer::getViewAt (const CPoint& p, bool deep)
getViewAtDeep(c, p, deep) == ViewAtDeepFrom(pLastView[c], ToLocal(c, p), deep)

\* a call of getViewAt (p, deep) by the client
GetViewAtDeep(c, p, deep) ==
    /\ ~deadUse
    /\ UNCHANGED nestVars
    /\ \E view \in {getViewAtDeep(c, p, deep)} :
          /\ deadUse' = (view = Dangling)
          /\ last' = [LastRec("getViewAt", c, view, p, deep) EXCEPT !.where2 = ToLocal(c, p)]
    /\ UNCHANGED <<listVars, viewVars, isAttached, captureVars, geomVars, countVars>>

NextDeep ==
    \/ \E c \in {Main, Box}, v \in SmallViews : AddView(c, v)
    \/ \E c \in {Main, Box}, v \in SmallViews : RemoveView(c, v, FALSE)
    \/ \E p \in Points, deep \in BOOLEAN : GetViewAtDeep(Main, p, deep)

SpecDeep == InitPaint /\ [][NextDeep]_vars

\* ------------------------------------------------------------------ drawRect
\* the draw context: its origin offset, its clip rectangle (kept in the
\* coordinates of the device) and its global alpha
Context(o, clip, a) == [offset |-> o, clip |-> clip, alpha |-> a]
\* CDrawContext::getClipRect: the clip rectangle in the coordinates of the caller
getClipRect(pC) == OffsetRect(pC.clip, -pC.offset.x, -pC.offset.y)
\* CDrawContext::setClipRect
setClipRect(pC, clip) == [pC EXCEPT !.clip = OffsetRect(clip, pC.offset.x, pC.offset.y)]
\* the product of two alpha values
Times(a, b) == Alpha(a.num * b.num, a.den * b.den)

\* faulty variant of restoreDrawContext: the offset stays as it is
restoreDrawContextNot(pC, save) == pC
\* void CViewContainer::modifyDrawContext, restoreDrawContext
modifyDrawContext(c, pC) ==
    [pC EXCEPT !.offset = Point(pC.offset.x + size[c].left, pC.offset.y + size[c].top)]
restoreDrawContext(pC, save) == [pC EXCEPT !.offset = save]

\* CRect::rectOverlap
rectOverlap(r, rect) ==
    ~(r.right < rect.left \/ r.left > rect.right \/ r.bottom < rect.top \/ r.top > rect.bottom)
\* CView::checkUpdate: the update rectangle meets the frame of the view
checkUpdate(v, updateRect) == rectOverlap(updateRect, viewSize[v])
\* bool CViewContainer::checkUpdateRect (CView* view, const CRect& rect)
checkUpdateRect(v, rect) == checkUpdate(v, rect) /\ visible[v]

\* faulty variant of PaintsChild: a child with nothing left of its frame is painted
PaintsChildEmpty(v, clientRect, newClip) == visible[v] /\ checkUpdateRect(v, clientRect)
\* lines 780 and 803-808: the child is painted
PaintsChild(v, clientRect, newClip) ==
    /\ visible[v]
    /\ checkUpdateRect(v, clientRect)
    /\ LET r == Bound(viewSize[v], newClip)
       IN ~(getWidth(r) = 0 \/ getHeight(r) = 0)

\* lines 774-778: the child whose focus is drawn below it, drawsItself saying
\* that focus drawing is enabled and the focus view draws its focus itself
FocusBelow(c, drawsItself) ==
    IF /\ drawsItself
       /\ focusView # Null
       /\ isChild(c, focusView)
       /\ visible[focusView]
       /\ wantsFocus[focusView]
    THEN focusView ELSE Null

\* faulty variant of AlphaFor: the child is painted with its own alpha
AlphaForOwn(globalContextAlpha, v) == alphaValue[v]
\* line 810: the alpha a child is painted with
AlphaFor(globalContextAlpha, v) == Times(globalContextAlpha, alphaValue[v])

\* CView::drawRect of a child that is no container: what it leaves of the
\* context; a child may leave its own clip and alpha behind
ChildLeaves(pC, messy) ==
    IF messy THEN [pC EXCEPT !.clip = NoRect, !.alpha = Alpha(0, 1)] ELSE pC

NoPaint ==
    [ctx |-> Null, painted |-> <<>>, cleanC |-> {}, cleanV |-> {},
     clientRect |-> NoRect, newClip |-> NoRect]

RECURSIVE drawRect(_, _, _, _)
\* lines 779-816, from node n on; k holds the locals of drawRect
RECURSIVE DrawFrom(_, _, _, _)
DrawFrom(c, n, pC, k) ==
    IF n = Null THEN [NoPaint EXCEPT !.ctx = pC]
    ELSE LET pV == pView[n]
             c1 == IF visible[pV] /\ FocusBelow(c, k.drawsItself) = pV
                   THEN setClipRect(pC, k.oldClip2) ELSE pC
             c2 == setClipRect(c1, Bound(viewSize[pV], k.newClip))
             globalContextAlpha == c2.alpha
             c3 == [c2 EXCEPT !.alpha = AlphaFor(globalContextAlpha, pV)]
             child == IF IsContainer(pV)
                      THEN drawRect(ContainerOf(pV), c3, k.clientRect, k)
                      ELSE [NoPaint EXCEPT !.ctx = ChildLeaves(c3, k.messy), !.cleanV = {pV}]
             c4 == [child.ctx EXCEPT !.alpha = globalContextAlpha]
         IN IF PaintsChild(pV, k.clientRect, k.newClip)
            THEN LET rest == DrawFrom(c, pNext[n], c4, k)
                 IN [ctx |-> rest.ctx,
                     painted |-> << [by |-> c, v |-> pV, clip |-> c3.clip,
                                     alpha |-> c3.alpha, offset |-> c3.offset] >>
                                 \o child.painted \o rest.painted,
                     cleanC |-> child.cleanC \cup rest.cleanC,
                     cleanV |-> child.cleanV \cup rest.cleanV]
            ELSE DrawFrom(c, pNext[n], c1, k)
\* void CViewContainer::drawRect (CDrawContext* pContext, const CRect& updateRect)
drawRect(c, pContext, updateRect, opt) ==
    LET save == pContext.offset
        c0 == modifyDrawContext(c, pContext)
        clientRect == OffsetRect(Bound(updateRect, size[c]), -size[c].left, -size[c].top)
        oldClip == getClipRect(c0)
        newClip == Bound(clientRect, oldClip)
        c1 == setClipRect(c0, newClip)
        k == [clientRect |-> clientRect, newClip |-> newClip, oldClip2 |-> oldClip,
              messy |-> opt.messy, drawsItself |-> opt.drawsItself]
        loop == DrawFrom(c, pFirstView[c], c1, k)
        c2 == setClipRect(loop.ctx, oldClip)
    IN [ctx |-> restoreDrawContext(c2, save),
        painted |-> loop.painted,
        cleanC |-> loop.cleanC \cup {c},
        cleanV |-> loop.cleanV,
        clientRect |-> clientRect,
        newClip |-> newClip]

\* a call of drawRect on a container in a frame (line 774 asks the frame); a
\* view that was painted is clean afterwards
DrawRect(c, pContext, updateRect, opt) ==
    /\ ~deadUse
    /\ HasParentFrame(c)
    /\ \E st \in {drawRect(c, pContext, updateRect, opt)} :
          /\ cDirty' = [d \in Containers |-> cDirty[d] /\ d \notin st.cleanC]
          /\ bDirty' = [v \in Views |-> bDirty[v] /\ v \notin st.cleanV]
          /\ last' = [op |-> "drawRect", c |-> c, v |-> Null, arg |-> updateRect,
                      ret |-> TRUE, target |-> Null, where2 |-> NoPoint,
                      entry |-> pContext, exit |-> st.ctx, painted |-> st.painted,
                      clientRect |-> st.clientRect, newClip |-> st.newClip,
                      messy |-> opt.messy]
    /\ UNCHANGED <<listVars, viewVars, isAttached, captureVars, geomVars, pParentView,
                   cVisible, asView, wantsFocus, focusView, listener, alphaValue, cMouseableArea,
                   deadUse, countVars>>

\* the contexts a paint starts with, the rectangles to update (the whole
\* container, a part of it, a part across its edge) and what the children do
Contexts ==
    {Context(Point(0, 0), Rect(0, 0, MaxCoord + 2, MaxCoord + 2), Alpha(1, 1)),
     Context(Point(1, 0), Rect(2, 1, MaxCoord + 1, MaxCoord), Alpha(1, 2))}
UpdateRects(c) ==
    {size[c], Rect(size[c].left, size[c].top, size[c].left + 1, size[c].top + 1),
     Rect(size[c].left + 2, size[c].top, size[c].right + 1, size[c].top + 1)}
PaintOptions ==
    {[messy |-> m, drawsItself |-> f] : m \in BOOLEAN, f \in BOOLEAN}

NextDraw ==
    \/ \E c \in {Main, Box}, v \in SmallViews : AddView(c, v)
    \/ \E c \in {Main, Box} : SetContainerDirty(c, TRUE)
    \/ SetDirty(1, TRUE)
    \/ \E c \in {Main, Box}, pContext \in Contexts, opt \in PaintOptions :
          \E updateRect \in UpdateRects(c) : DrawRect(c, pContext, updateRect, opt)
    \/ \E p \in Points : \E resp \in [HitChildren(Main, ToLocal(Main, p)) -> {kMouseEventNotHandled}] :
          OnMouseDown(Main, p, resp)

SpecDraw == InitPaint /\ [][NextDraw]_vars

\* ============================================================ Minesweeper
\* vstgui/standalone/examples/minesweeper/source/myapp.cpp: class Model and the
\* mouse handling of class MinefieldViewController.

\* the field of the game: startGame (rows, cols, mines)
numRows == 2
numCols == 3
MaxMines == 2
\* calls of open and mark that are followed
MaxMoves == 4
Cells == (0 .. numRows - 1) \X (0 .. numCols - 1)

\* uint32_t arithmetic of ++opened, ++flagged, --flagged. The counters stay far
\* below 2^31; a count below zero stands for the value 2^32 - n that --flagged
\* wraps to, which differs from every number of cells.
Inc32(n) == n + 1
Dec32(n) == n - 1

\* openCleanNearby and calcNeighbours: the cells around (row, col), in the order
\* in which both visit them
Around(cell) ==
    LET row == cell[1]
        col == cell[2]
        maxCol == numCols - 1
        maxRow == numRows - 1
        Line(r) == (IF col > 0 THEN << <<r, col - 1>> >> ELSE <<>>)
                   \o (IF r # row THEN << <<r, col>> >> ELSE <<>>)
                   \o (IF col < maxCol THEN << <<r, col + 1>> >> ELSE <<>>)
    IN (IF row > 0 THEN Line(row - 1) ELSE <<>>)
       \o Line(row)
       \o (IF row < maxRow THEN Line(row + 1) ELSE <<>>)

\* calcNeighbours: a mine keeps neighbours = 0
calcNeighbours(mine) ==
    [cell \in Cells |->
        IF cell \in mine THEN 0
        ELSE Cardinality({i \in 1..Len(Around(cell)) : Around(cell)[i] \in mine})]

\* Model::Model after allocateModel, clearModel, setMines (the mines lie on the
\* cells of mine) and calcNeighbours. The bits of the cells are kept as the sets
\* of the cells that have them.
NewModel(mine) ==
    [running |-> TRUE, mine |-> mine, neighbours |-> calcNeighbours(mine),
     open |-> {}, flag |-> {}, question |-> {}, trap |-> {},
     mines |-> Cardinality(mine), opened |-> 0, flagged |-> 0, trapped |-> FALSE]

\* faulty variant of openInternal: the flag is taken off, flagged is not counted down
openInternalUncounted(m, cell) ==
    IF cell \notin m.open
    THEN LET m1 == [m EXCEPT !.open = @ \cup {cell},
                             !.opened = Inc32(@),
                             !.flag = @ \ {cell},
                             !.question = IF cell \in m.flag THEN @ ELSE @ \ {cell}]
         IN IF cell \in m.mine
            THEN [m |-> [m1 EXCEPT !.trap = @ \cup {cell}, !.trapped = TRUE], ret |-> FALSE]
            ELSE [m |-> m1, ret |-> TRUE]
    ELSE [m |-> m, ret |-> FALSE]
\* bool Model::openInternal (uint32_t row, uint32_t col)
openInternal(m, cell) ==
    IF cell \notin m.open
    THEN LET m1 == [m EXCEPT !.open = @ \cup {cell},
                             !.opened = Inc32(@),
                             !.flag = @ \ {cell},
                             !.flagged = IF cell \in m.flag THEN Dec32(@) ELSE @,
                             !.question = IF cell \in m.flag THEN @ ELSE @ \ {cell}]
         IN IF cell \in m.mine
            THEN [m |-> [m1 EXCEPT !.trap = @ \cup {cell}, !.trapped = TRUE], ret |-> FALSE]
            ELSE [m |-> m1, ret |-> TRUE]
    ELSE [m |-> m, ret |-> FALSE]

RECURSIVE open(_, _), openEach(_, _)
\* void Model::open (uint32_t row, uint32_t col)
open(m, cell) ==
    LET r == openInternal(m, cell)
    IN IF r.ret /\ cell \in r.m.open /\ r.m.neighbours[cell] = 0
       THEN openEach(r.m, Around(cell))
       ELSE r.m
\* the calls of open that openCleanNearby makes, one after the other
openEach(m, cells) ==
    IF cells = <<>> THEN m ELSE openEach(open(m, Head(cells)), Tail(cells))
\* void Model::openCleanNearby (uint32_t row, uint32_t col)
openCleanNearby(m, cell) == openEach(m, Around(cell))

\* void Model::mark (uint32_t row, uint32_t col)
mark(m, cell) ==
    IF cell \in m.flag
    THEN [m EXCEPT !.flagged = Dec32(@), !.flag = @ \ {cell}, !.question = @ \cup {cell}]
    ELSE IF cell \in m.question
    THEN [m EXCEPT !.question = @ \ {cell}]
    ELSE [m EXCEPT !.flagged = Inc32(@), !.flag = @ \cup {cell}]

\* uint32_t Model::getNumberOfFlags () const
getNumberOfFlags(m) == m.flagged
\* bool Model::isTrapped () const
isTrapped(m) == m.trapped
\* bool Model::isDone () const
isDone(m) == m.flagged = m.mines /\ ~\E cell \in m.flag : cell \notin m.mine

\* what the game leaves alone
GameOnly ==
    UNCHANGED <<listVars, viewVars, isAttached, captureVars, geomVars, nestVars, deadUse,
                nAdded, nRemoved>>

\* a call of Model::open by a client of the model
Open(cell) ==
    /\ model.running /\ nMoves < MaxMoves
    /\ model' = open(model, cell)
    /\ nMoves' = nMoves + 1
    /\ last' = LastRec("open", Main, Null, cell, TRUE)
    /\ UNCHANGED controller
    /\ GameOnly

\* a call of Model::mark by a client of the model
Mark(cell) ==
    /\ model.running /\ nMoves < MaxMoves
    /\ model' = mark(model, cell)
    /\ nMoves' = nMoves + 1
    /\ last' = LastRec("mark", Main, Null, cell, TRUE)
    /\ UNCHANGED controller
    /\ GameOnly

\* no timer is running
NoTimer == <<>>
kLeft == "left"
kRight == "right"
kNoButton == "none"
Buttons == {kLeft, kRight, "middle"}

\* MinefieldViewController after startGame; pressed is history: the button that
\* is down, for which the browser has sent dbOnMouseDown and not yet dbOnMouseUp
NewController(mouseMode) ==
    [running |-> TRUE, mouseMode |-> mouseMode, ignoreMouseUp |-> FALSE,
     mouseDownTimer |-> NoTimer, started |-> FALSE, gameTimer |-> FALSE,
     pressed |-> kNoButton]

\* one mine or more, lying anywhere; the game is played with the mouse or the touchpad
InitGame ==
    /\ InitEmpty
    /\ InitFlat
    /\ InitGeomDefault
    /\ isAttached = [c \in Containers |-> TRUE]
    /\ last = NoCall
    /\ model \in {NewModel(mine) : mine \in {M \in SUBSET Cells : Cardinality(M) \in 1..MaxMines}}
    /\ controller \in {NewController(b) : b \in BOOLEAN}
    /\ nMoves = 0

\* void MinefieldViewController::checkGameOver (): the game timer is started with
\* the first move and stopped when the game is won or lost
checkGameOver(ctl, m) ==
    LET begun == [ctl EXCEPT !.started = TRUE, !.gameTimer = IF ctl.started THEN @ ELSE TRUE]
    IN IF (isDone(m) /\ ~isTrapped(m)) \/ isTrapped(m)
       THEN [begun EXCEPT !.gameTimer = FALSE]
       ELSE begun

\* void MinefieldViewController::setMouseMode (bool state)
SetMouseMode(state) ==
    /\ controller.running
    /\ controller' = [controller EXCEPT !.mouseMode = state]
    /\ last' = LastRec("setMouseMode", Main, Null, state, TRUE)
    /\ UNCHANGED <<model, nMoves>>
    /\ GameOnly

\* CMouseEventResult MinefieldViewController::dbOnMouseDown (where, buttons, row, column, browser)
DbOnMouseDown(cell, button) ==
    /\ controller.running /\ controller.pressed = kNoButton
    /\ controller' = [controller EXCEPT
                         !.ignoreMouseUp = FALSE,
                         !.mouseDownTimer = IF ~controller.mouseMode /\ button = kLeft
                                            THEN cell ELSE @,
                         !.pressed = button]
    /\ last' = LastRec("dbOnMouseDown", Main, Null, cell, kMouseEventHandled)
    /\ UNCHANGED <<model, nMoves>>
    /\ GameOnly

\* lines 521-525: the timer marks the cell
TimerMarks(m, cell) == cell \notin m.open

\* the callback of mouseDownTimer, lines 519-527, 60 ms after dbOnMouseDown
MouseDownTimerFires ==
    /\ controller.running /\ controller.mouseDownTimer # NoTimer
    /\ nMoves < MaxMoves
    /\ LET cell == controller.mouseDownTimer
           stopped == [controller EXCEPT !.mouseDownTimer = NoTimer]
       IN IF TimerMarks(model, cell)
          THEN /\ model' = mark(model, cell)
               /\ nMoves' = nMoves + 1
               /\ controller' = [checkGameOver(stopped, mark(model, cell))
                                    EXCEPT !.ignoreMouseUp = TRUE]
          ELSE /\ UNCHANGED <<model, nMoves>>
               /\ controller' = [stopped EXCEPT !.ignoreMouseUp = TRUE]
    /\ last' = LastRec("mouseDownTimer", Main, Null, controller.mouseDownTimer, TRUE)
    /\ GameOnly

\* dbOnMouseUp, lines 547-558: what the click does to the model
Clicked(m, cell, button) ==
    IF button = kRight THEN mark(m, cell)
    ELSE IF button = kLeft
    THEN (IF cell \notin m.flag /\ cell \notin m.question THEN open(m, cell) ELSE mark(m, cell))
    ELSE m

\* CMouseEventResult MinefieldViewController::dbOnMouseUp (where, buttons, row, column, browser)
DbOnMouseUp(cell) ==
    /\ controller.running /\ controller.pressed # kNoButton
    /\ nMoves < MaxMoves
    /\ LET button == controller.pressed
           stopped == [controller EXCEPT !.mouseDownTimer = NoTimer, !.pressed = kNoButton]
       IN IF controller.ignoreMouseUp \/ isTrapped(model) \/ isDone(model)
             \/ cell \in model.open
          THEN /\ UNCHANGED <<model, nMoves>>
               /\ controller' = stopped
          ELSE /\ model' = Clicked(model, cell, button)
               /\ nMoves' = IF button \in {kLeft, kRight} THEN nMoves + 1 ELSE nMoves
               /\ controller' = checkGameOver(stopped, Clicked(model, cell, button))
    /\ last' = LastRec("dbOnMouseUp", Main, Null, cell, kMouseEventHandled)
    /\ GameOnly

\* the model used on its own
NextModel ==
    \/ \E cell \in Cells : Open(cell)
    \/ \E cell \in Cells : Mark(cell)

SpecModel == InitGame /\ [][NextModel]_vars

\* the game played through the data browser
NextGame ==
    \/ \E state \in BOOLEAN : SetMouseMode(state)
    \/ \E cell \in Cells, button \in Buttons : DbOnMouseDown(cell, button)
    \/ MouseDownTimerFires
    \/ \E cell \in Cells : DbOnMouseUp(cell)

SpecGame == InitGame /\ [][NextGame]_vars

\* ================================================================ claims
\* sequences, as the claims speak of them
FirstIndex(s, v) == CHOOSE i \in 1..Len(s) : s[i] = v /\ \A j \in 1..(i - 1) : s[j] # v
InsertAt(s, i, v) == SubSeq(s, 1, i - 1) \o <<v>> \o SubSeq(s, i, Len(s))
Without(s, v) == SelectSeq(s, LAMBDA x : x # v)
NoDuplicates(s) == \A i, j \in 1..Len(s) : s[i] = s[j] => i = j

\* C1: after any sequence of addView, addView-before and removeView calls the
\* number of children is the number of adds that returned true minus the number
\* of removes that returned true, and isChild (v) holds exactly for the views in
\* the child sequence, which are the views added more often than removed.
C1_CountAndMembership ==
    /\ getNbViews(Main) = Total(nAdded) - Total(nRemoved)
    /\ \A v \in ViewOrNull :
          /\ isChild(Main, v) <=> v \in SeqRange(Children(Main))
          /\ isChild(Main, v) <=> (v \in Views /\ nAdded[v] > nRemoved[v])

C1_Witness ==
    /\ getNbViews(Main) >= 2
    /\ Total(nRemoved) >= 1
    /\ \E v \in Views : nAdded[v] >= 1 /\ ~isChild(Main, v)

\* C2: no view occurs twice in the child sequence of a container, and no view is
\* in the child sequences of two containers.
C2_NoDuplicates ==
    /\ \A c \in Containers : NoDuplicates(Children(c))
    /\ \A c1, c2 \in Containers :
          c1 # c2 => SeqRange(Children(c1)) \cap SeqRange(Children(c2)) = {}

\* C3: addView of a null or attached view, removeView of a view that is not a
\* child, and changeViewZOrder with fewer than two children return false and
\* leave the child sequence as it was.
C3_InvalidCallsFail ==
    [][LET r == last'
           old == Children(Main)
           new == Children(Main)'
       IN /\ (/\ r.op \in {"addView", "addViewBefore"}
              /\ (IF r.v = Null THEN TRUE ELSE viewAttached[r.v]))
                 => (~r.ret /\ new = old)
          /\ (r.op = "removeView" /\ r.v \notin SeqRange(old)) => (~r.ret /\ new = old)
          /\ (r.op = "changeViewZOrder" /\ Len(old) < 2) => (~r.ret /\ new = old)
      ]_vars

\* a second removeView of a view that was removed before, with other children left
C3_Witness ==
    /\ last.op = "removeView" /\ ~last.ret
    /\ last.v \in Views /\ nRemoved[last.v] >= 1
    /\ getNbViews(Main) >= 1

\* C4: changeViewZOrder (v, k) on two or more children, v a child and k >= 0, puts
\* v at position k (at the last position when k is not below the number of
\* children) and keeps the order of the other children.
C4_ZOrderPosition ==
    [][LET r == last'
           old == Children(Main)
           new == Children(Main)'
           n == Len(old)
       IN (/\ r.op = "changeViewZOrder"
           /\ n >= 2 /\ r.v \in SeqRange(old) /\ r.arg >= 0)
          => /\ Len(new) = n
             /\ new[IF r.arg >= n THEN n ELSE r.arg + 1] = r.v
             /\ Without(new, r.v) = Without(old, r.v)
      ]_vars

\* a child moved from the head to the middle of three
C4_Witness ==
    /\ last.op = "changeViewZOrder" /\ last.ret /\ last.arg = 1
    /\ Len(Children(Main)) >= 3
    /\ Children(Main)[2] = last.v
    /\ NoDuplicates(Children(Main))

\* C5: a successful addView (view) appends view; a successful addView (view,
\* before) with before a child puts view right in front of it; the children that
\* were there keep their order.
C5_AddPosition ==
    [][LET r == last'
           old == Children(Main)
           new == Children(Main)'
       IN /\ (r.op = "addView" /\ r.ret) => new = Append(old, r.v)
          /\ (r.op = "addViewBefore" /\ r.ret /\ r.arg \in SeqRange(old))
                => new = InsertAt(old, FirstIndex(old, r.arg), r.v)
      ]_vars

\* a view added in front of the last of two children
C5_Witness ==
    /\ last.op = "addViewBefore" /\ last.ret
    /\ Len(Children(Main)) = 3
    /\ Children(Main)[2] = last.v /\ Children(Main)[3] = last.arg

\* C6: a successful addView raises the view's count by one, removeView (v, false)
\* lowers it by one, removeView (v, true) and removeAll (true) by two, a failed
\* call leaves it alone, and no forget () reaches a view whose count is zero.
C6_ReferencesBalanced ==
    [][LET r == last'
       IN /\ (r.op \in {"addView", "addViewBefore"} /\ r.ret)
                => nbReference'[r.v] = nbReference[r.v] + 1
          /\ (r.op = "removeView" /\ r.ret /\ ~r.arg)
                => nbReference'[r.v] = nbReference[r.v] - 1
          /\ (r.op = "removeView" /\ r.ret /\ r.arg)
                => nbReference'[r.v] = nbReference[r.v] - 2
          /\ (r.op = "removeAll" /\ r.arg)
                => \A u \in SeqRange(Children(r.c)) : nbReference'[u] = nbReference[u] - 2
          /\ (r.op \in {"addView", "addViewBefore", "removeView"} /\ ~r.ret)
                => nbReference' = nbReference
          /\ ~deadUse'
      ]_vars

\* C7: between calls, mouseDownView is null or a child of the container, and
\* currentDragView is null or a child of the container.
C7_CaptureIsChild ==
    \A c \in Containers :
       /\ mouseDownView[c] = Null \/ mouseDownView[c] \in SeqRange(Children(c))
       /\ currentDragView[c] = Null \/ currentDragView[c] \in SeqRange(Children(c))

\* a child was removed and the capture is empty again, while another child is
\* still the drag target
C7_Witness ==
    /\ last.op = "removeView" /\ last.ret
    /\ last.v \notin SeqRange(Children(Main))
    /\ mouseDownView[Main] = Null
    /\ currentDragView[Main] \in SeqRange(Children(Main))

\* C8: once onMouseDown was given to a child that returned kMouseEventHandled
\* with a reference count above one, every onMouseMoved (as long as the child
\* returns kMouseEventHandled) and the next onMouseUp go to that child with the
\* point moved by the container's origin, wherever the point lies; that
\* onMouseUp returns kMouseEventHandled and leaves the capture empty.
C8_CapturedGesture ==
    [][LET r == last'
           g == gesture[Main]
       IN (r.op \in {"onMouseMoved", "onMouseUp"} /\ g # Null)
          => /\ r.target = g
             /\ r.where2 = Point(r.arg.x - size[Main].left, r.arg.y - size[Main].top)
             /\ r.op = "onMouseUp"
                   => (r.ret = kMouseEventHandled /\ mouseDownView'[Main] = Null)
      ]_vars

\* an onMouseUp that went to the capturing child although the point lies outside
\* of it and inside another child
C8_Witness ==
    /\ last.op = "onMouseUp" /\ last.ret = kMouseEventHandled
    /\ last.target \in Views
    /\ ~IsInside(last.where2, mouseableArea[last.target])
    /\ \E u \in SeqRange(Children(Main)) :
          u # last.target /\ IsInside(last.where2, mouseableArea[u])

\* the positions of the visible children of s whose mouseable area contains q
HitIndices(s, q) ==
    {i \in 1..Len(s) : visible[s[i]] /\ IsInside(q, mouseableArea[s[i]])}
MaxOf(S) == CHOOSE i \in S : \A j \in S : j <= i
TopHit(s, q) == IF HitIndices(s, q) = {} THEN Null ELSE s[MaxOf(HitIndices(s, q))]
BelowTopHit(s, q) ==
    LET rest == HitIndices(s, q) \ {MaxOf(HitIndices(s, q))}
    IN IF rest = {} THEN Null ELSE s[MaxOf(rest)]
LocalOf(p) == Point(p.x - size[Main].left, p.y - size[Main].top)

\* C9: getViewAt (p) returns the child latest in list order among the visible
\* children whose mouseable area contains p moved into the container, null if
\* there is none; once that child is removed, getViewAt (p) returns the next
\* such child below it.
C9_TopmostHit ==
    [][LET r == last'
           old == Children(Main)
       IN /\ r.op = "getViewAt" => r.v = TopHit(old, LocalOf(r.arg))
          /\ (r.op = "removeView" /\ r.ret)
                => \A p \in Points :
                      TopHit(old, LocalOf(p)) = r.v
                         => getViewAt(Main, p)' = BelowTopHit(old, LocalOf(p))
      ]_vars

MinOf(S) == CHOOSE i \in S : \A j \in S : i <= j
UnionBox(S) ==
    Rect(MinOf({viewSize[v].left : v \in S}), MinOf({viewSize[v].top : v \in S}),
         MaxOf({viewSize[v].right : v \in S}), MaxOf({viewSize[v].bottom : v \in S}))
VisibleChildren(c) == {v \in SeqRange(Children(c)) : visible[v]}

\* C11: when no row/column autosizing flag is set, sizeToFit returns true and
\* gives the container exactly the width and the height of the union bounding
\* box of the frames its visible children had at the call, wherever they lie.
C11_FitsUnion ==
    [][ LET r == last'
        IN (r.op = "sizeToFit" /\ cAutosize[Main] \cap {kAutosizeRow, kAutosizeColumn} = {}
              /\ VisibleChildren(Main) # {})
           => /\ r.ret = TRUE
              /\ getWidth(size'[Main]) = getWidth(UnionBox(VisibleChildren(Main)))
              /\ getHeight(size'[Main]) = getHeight(UnionBox(VisibleChildren(Main))) ]_vars

\* the container c and the containers it lies in
RECURSIVE Ancestors(_)
Ancestors(c) == IF c = Null THEN {} ELSE {c} \cup Ancestors(pParentView[c])
RECURSIVE SumOver(_, _)
SumOver(f, S) ==
    IF S = {} THEN 0 ELSE LET x == CHOOSE y \in S : TRUE IN f[x] + SumOver(f, S \ {x})
OriginSum(c) ==
    Point(SumOver([d \in Containers |-> size[d].left], Ancestors(c)),
          SumOver([d \in Containers |-> size[d].top], Ancestors(c)))

\* C12: localToFrame moves the point by the sum of the origins of the container
\* and of all the containers it lies in, and frameToLocal on the same container
\* takes the point localToFrame returned back to exactly the point passed.
C12_RoundTrip ==
    [][ LET r == last'
        IN /\ r.op = "localToFrame"
              => /\ r.where2 = OffsetPoint(r.arg, OriginSum(r.c).x, OriginSum(r.c).y)
                 /\ frameToLocal(r.c, r.where2) = r.arg
           /\ (r.op = "frameToLocal" /\ last.op = "localToFrame" /\ r.c = last.c
                 /\ r.arg = last.where2)
              => r.where2 = last.arg ]_vars

\* frameToLocal on an inner container of a chain with origins other than zero
\* has returned the point whose localToFrame image it was given
C12_Witness ==
    /\ last.op = "frameToLocal"
    /\ pParentView[last.c] # Null
    /\ size[last.c].left # 0 /\ size[pParentView[last.c]].left # 0
    /\ localToFrame(last.c, last.where2) = last.arg
    /\ last.where2 \in Points

\* the part of r that lies in rect
Intersection(r, rect) ==
    Rect(MaxOf({r.left, rect.left}), MaxOf({r.top, rect.top}),
         MinOf({r.right, rect.right}), MinOf({r.bottom, rect.bottom}))
HasArea(r) == r.left < r.right /\ r.top < r.bottom
\* r of container c in the coordinates of what c lies in, cut to the frame of c
Clipped(c, r) == Intersection(OffsetRect(r, size[c].left, size[c].top), size[c])
\* what comes out at the top of the chain, the rectangle being r when it enters c
RECURSIVE Bubbled(_, _)
Bubbled(c, r) ==
    IF pParentView[c] = Null THEN Clipped(c, r) ELSE Bubbled(pParentView[c], Clipped(c, r))
\* every rectangle on the way up has an area
RECURSIVE BubblesUp(_, _)
BubblesUp(c, r) ==
    /\ cVisible[c]
    /\ HasArea(Clipped(c, r))
    /\ pParentView[c] # Null => BubblesUp(pParentView[c], Clipped(c, r))

\* C13: invalidRect (r) on a container that lies in the frame hands on r moved
\* by the container's origin and cut to the container's frame, and nothing when
\* the container is invisible or nothing is left of r; through a chain of nested
\* containers the frame gets r in its own coordinates, cut by every container on
\* the way, and nothing when one of them is invisible.
C13_InvalidRectBubbles ==
    [][ LET r == last'
        IN (r.op = "invalidRect" /\ HasParentFrame(r.c))
           => /\ BubblesUp(r.c, r.arg) => r.where2 = Bubbled(r.c, r.arg)
              /\ ~BubblesUp(r.c, r.arg) => r.where2 = NoRect
              /\ (pParentView[r.c] = Null /\ cVisible[r.c] /\ HasArea(Clipped(r.c, r.arg)))
                 => r.where2 = Clipped(r.c, r.arg) ]_vars

\* a rectangle went through two containers and was cut on the way
C13_Witness ==
    /\ last.op = "invalidRect"
    /\ pParentView[last.c] # Null
    /\ last.where2 # NoRect
    /\ getWidth(last.where2) < getWidth(last.arg)
    /\ last.where2 = Bubbled(last.c, last.arg)

\* s without its elements that are not in S
Only(s, S) == SelectSeq(s, LAMBDA x : x \in S)
Reversed(s) == [i \in 1..Len(s) |-> s[Len(s) + 1 - i]]

\* C14: when a child that a traversal calls takes itself out of the container in
\* the callback, the traversal reads no list node and no view that is already
\* freed, and it has called each child at most once, in the traversal's order.
C14_RemovalDuringTraversal ==
    [][ LET r == last'
        IN r.op = "onWheel"
           => /\ ~r.freed
              /\ ~deadUse'
              /\ NoDuplicates(r.visited)
              /\ r.visited = Only(Reversed(Children(Main)), SeqRange(r.visited)) ]_vars

\* C15: onDragMove on a container attached to a frame: when the child under the
\* point is not the drag target, the old target (if any) gets onDragLeave, then
\* the new child (if any) gets onDragEnter and becomes the drag target, and
\* nobody gets onDragMove; when the child under the point is the drag target,
\* that child alone gets onDragMove and the drag target stays.
C15_DragMove ==
    [][ LET r == last'
            cur == currentDragView[Main]
            hit == TopHit(Children(Main), r.where2)
        IN (r.op = "onDragMove" /\ HasParentFrame(Main) /\ ~deadUse')
           => /\ hit # cur
                 => /\ r.calls = (IF cur # Null THEN << <<"onDragLeave", cur>> >> ELSE <<>>)
                                 \o (IF hit # Null THEN << <<"onDragEnter", hit>> >> ELSE <<>>)
                    /\ currentDragView'[Main] = hit
              /\ (hit = cur /\ cur # Null)
                 => /\ r.calls = << <<"onDragMove", cur>> >>
                    /\ currentDragView'[Main] = cur ]_vars

\* the drag went from one child over to another one
C15_Witness ==
    /\ last.op = "onDragMove"
    /\ Len(last.calls) = 2
    /\ last.calls[1][1] = "onDragLeave" /\ last.calls[2][1] = "onDragEnter"
    /\ last.calls[1][2] # last.calls[2][2]
    /\ currentDragView[Main] = last.calls[2][2]

\* C16: onDrop on a container attached to a frame gives onDrop to the child under
\* the point and right after it onDragLeave to the same child, returns what that
\* child's onDrop returned (false when no child is under the point), and leaves
\* the drag target empty in every case.
C16_Drop ==
    [][ LET r == last'
            hit == TopHit(Children(Main), r.where2)
            n == Len(r.calls)
        IN (r.op = "onDrop" /\ HasParentFrame(Main) /\ ~deadUse')
           => /\ currentDragView'[Main] = Null
              /\ hit = Null
                 => /\ r.ret = FALSE
                    /\ \A i \in 1..n : r.calls[i][1] # "onDrop"
              /\ hit # Null
                 => /\ n >= 2
                    /\ r.calls[n - 1][1] = "onDrop" /\ r.calls[n - 1][2] = hit
                    /\ r.calls[n] = <<"onDragLeave", hit>>
                    /\ r.ret = r.calls[n - 1][3]
                    /\ \A i \in 1..(n - 2) : r.calls[i][1] # "onDrop" ]_vars

\* a drop on a child that was not the drag target and that accepted it
C16_Witness ==
    /\ last.op = "onDrop"
    /\ last.ret = TRUE
    /\ Len(last.calls) = 3
    /\ last.calls[1][2] # last.calls[2][2]
    /\ last.calls[3] = <<"onDragLeave", last.calls[2][2]>>
    /\ currentDragView[Main] = Null

\* the views that can take the focus in and below the children s, in the order
\* the search meets them: a child itself, or else what is in it
RECURSIVE FocusOrder(_, _)
FocusOrder(s, reverse) ==
    IF s = <<>> THEN <<>>
    ELSE (IF TakesFocus(Head(s)) THEN <<Head(s)>>
          ELSE IF IsContainer(Head(s))
          THEN FocusOrder(IF reverse THEN Reversed(Children(ContainerOf(Head(s))))
                          ELSE Children(ContainerOf(Head(s))), reverse)
          ELSE <<>>)
         \o FocusOrder(Tail(s), reverse)
\* the children of s strictly after v; none when v is not in s
After(s, v) ==
    IF v \in SeqRange(s) THEN SubSeq(s, FirstIndex(s, v) + 1, Len(s)) ELSE <<>>

\* C17: advanceNextFocusView (oldFocus, reverse) gives the focus to the first
\* view in the requested direction strictly after oldFocus (from the start when
\* oldFocus is null) that is visible, mouse-enabled and wants the focus, a child
\* container that does not take it being searched from its own start before the
\* later siblings; it returns true exactly when it set the focus, and when there
\* is no such view, oldFocus being the last child or no direct child included,
\* it returns false and the focus stays.
C17_FocusAdvance ==
    [][ LET r == last'
            inOrder == IF r.arg THEN Reversed(Children(Main)) ELSE Children(Main)
            rest == IF r.v = Null THEN inOrder ELSE After(inOrder, r.v)
            found == FocusOrder(rest, r.arg)
        IN r.op = "advanceNextFocusView"
           => /\ r.ret = (found # <<>>)
              /\ found # <<>> => focusView' = found[1]
              /\ found = <<>> => focusView' = focusView ]_vars

\* oldFocus is the first child and would take the focus itself; the search went
\* on behind it, into the container, and gave the focus to a view in there
C17_Witness ==
    /\ last.op = "advanceNextFocusView" /\ last.ret /\ last.v # Null /\ ~last.arg
    /\ Children(Main) = <<last.v, BoxView>>
    /\ TakesFocus(last.v)
    /\ ~TakesFocus(BoxView)
    /\ focusView \in SeqRange(Children(Box))

\* C18: attached (parent) on an unattached container calls attached (this) on
\* every child in list order before the container becomes attached itself, and
\* on an attached container it returns false and calls no child; removed (parent)
\* does the same the other way round. So after any sequence of attached, removed,
\* addView and removeView every child of an attached container is attached, and
\* a view removed from an attached container is detached.
C18_AttachedChildren ==
    [][ LET r == last'
            kids == Children(r.c)
        IN /\ r.op \in {"attached", "removed"}
              => /\ r.ret = (isAttached[r.c] = (r.op = "removed"))
                 /\ ~r.ret => (r.where2 = <<>> /\ isAttached'[r.c] = isAttached[r.c])
                 /\ r.ret
                    => /\ r.where2 = [i \in 1..Len(kids) |-> <<r.op, kids[i]>>]
                                     \o << <<r.op, "this">> >>
                       /\ isAttached'[r.c] = (r.op = "attached")
           /\ \A c \in Containers :
                 isAttached'[c] => \A v \in SeqRange(Children(c)') : viewAttached'[v]
           /\ (r.op = "removeView" /\ r.ret /\ isAttached[r.c]) => ~viewAttached'[r.v] ]_vars

C20_RemoveAll ==
    [][ LET r == last' IN
        r.op = "removeAll" =>
          \A c \in Containers : r.c = c =>
             /\ r.ret = TRUE
             /\ pFirstView'[c] = Null
             /\ pLastView'[c] = Null
             /\ mouseDownView'[c] = Null
             /\ currentDragView'[c] = Null
             /\ r.where2[1] = <<"clear", Null>>
             /\ \A i \in 2..Len(r.where2) : r.where2[i][1] # "clear"
             /\ \A v \in SeqRange(Children(c)) :
                   Cardinality({i \in 1..Len(r.where2) : r.where2[i] = <<"removed", v>>})
                      = IF isAttached[c] THEN 1 ELSE 0
      ]_vars

\* C21: with no captured child, onMouseUp and onMouseMoved return
\* kMouseEventNotHandled and call no child; when the captured child answers
\* onMouseMoved with anything but kMouseEventHandled, the capture is cleared and
\* the container returns kMouseEventNotHandled; and an empty capture is filled by
\* nothing but an onMouseDown, so the calls after that reach no child until then.
C21_NoCaptureNoDelivery ==
    [][ LET r == last' IN
        /\ (r.op \in {"onMouseUp", "onMouseMoved"} /\ mouseDownView[Main] = Null)
              => /\ r.ret = kMouseEventNotHandled
                 /\ r.target = Null
                 /\ mouseDownView'[Main] = Null
        /\ (r.op = "onMouseMoved" /\ mouseDownView[Main] # Null)
              => /\ r.target = mouseDownView[Main]
                 /\ r.answer # kMouseEventHandled
                       => (mouseDownView'[Main] = Null /\ r.ret = kMouseEventNotHandled)
                 /\ r.answer = kMouseEventHandled
                       => (mouseDownView'[Main] = mouseDownView[Main]
                           /\ r.ret = kMouseEventHandled)
        /\ (mouseDownView[Main] = Null /\ mouseDownView'[Main] # Null)
              => r.op = "onMouseDown"
      ]_vars
\* the captured child answered onMouseMoved with a result that accepts a mouse
\* click but is not kMouseEventHandled: the capture is gone
C21_Witness ==
    /\ last.op = "onMouseMoved"
    /\ last.target \in SeqRange(Children(Main))
    /\ last.answer = kMouseDownEventHandledButDontNeedMovedOrUpEvents
    /\ last.ret = kMouseEventNotHandled
    /\ mouseDownView[Main] = Null

\* the children of s that onMouseDown tries for the point q, topmost first
Tryable(s, q) ==
    SelectSeq(Reversed(s),
              LAMBDA v : visible[v] /\ mouseEnabled[v] /\ IsInside(q, mouseableArea[v]))
Declines(result) == result \in {kMouseEventNotHandled, kMouseEventNotImplemented}

\* what C22 says of an onMouseDown that no listener took, but for the result when
\* every tried child declined: the children tried are the topmost qualifying
\* ones in that order, each but the last declined and is transparent, and the
\* last one accepted, or declined and is opaque, or is the lowest qualifying one
TriedInOrder(r) ==
    LET qual == Tryable(Children(Main), r.local)
        n == Len(r.tried)
    IN /\ n <= Len(qual)
       /\ r.tried = SubSeq(qual, 1, n)
       /\ \A i \in 1..(n - 1) : Declines(r.answers[i]) /\ transparent[r.tried[i]]
       /\ n = 0 => qual = <<>>
       /\ (n > 0 /\ Declines(r.answers[n]) /\ transparent[r.tried[n]]) => n = Len(qual)
       /\ (n > 0 /\ ~Declines(r.answers[n])) => r.ret = r.answers[n]
       /\ (n > 0 /\ Declines(r.answers[n]) /\ ~transparent[r.tried[n]])
             => r.ret = r.answers[n]

\* C22 as stated: in onMouseDown the visible, mouse-enabled children under the
\* point are tried topmost first; a declining opaque child ends the search with
\* its result, a declining transparent one lets the next lower one be tried; and
\* if every tried child declines or none qualifies, the result is
\* kMouseEventNotHandled and no capture is set.
C22_AsStated ==
    [][ LET r == last' IN
        (r.op = "onMouseDown" /\ r.clicked = Null) =>
           /\ TriedInOrder(r)
           /\ (\A i \in 1..Len(r.tried) : Declines(r.answers[i]))
                 => (r.ret = kMouseEventNotHandled /\ mouseDownView' = mouseDownView)
      ]_vars

\* C22, amended: as above, but if every tried child declines, the result is the
\* answer of the last tried child when that child is opaque (which may be
\* kMouseEventNotImplemented), and kMouseEventNotHandled otherwise; no capture is set.
C22_MouseDownOrder ==
    [][ LET r == last'
            n == Len(r.tried)
        IN (r.op = "onMouseDown" /\ r.clicked = Null) =>
           /\ TriedInOrder(r)
           /\ (\A i \in 1..n : Declines(r.answers[i]))
                 => /\ mouseDownView' = mouseDownView
                    /\ Declines(r.ret)
                    /\ r.ret = IF n > 0 /\ ~transparent[r.tried[n]] THEN r.answers[n]
                               ELSE kMouseEventNotHandled
      ]_vars
\* the topmost child declined and is transparent, the next lower one was tried,
\* is opaque and answered kMouseEventNotImplemented, which is what was returned
C22_Witness ==
    /\ last.op = "onMouseDown"
    /\ last.clicked = Null
    /\ Len(last.tried) = 2
    /\ transparent[last.tried[1]]
    /\ ~transparent[last.tried[2]]
    /\ last.ret = kMouseEventNotImplemented
    /\ mouseDownView[Main] = Null

\* C23: in onMouseDown, when the topmost qualifying child is a control with a
\* listener, a modifier key is held and controlModifierClicked returns non-zero,
\* the container returns kMouseEventHandled, no child gets onMouseDown, and the
\* focus view and mouseDownView stay as they were; wherever a listener takes the
\* click, the control is not called, is not given the focus and is not captured;
\* and mouseDownView changes only to a child that answered kMouseEventHandled,
\* every other accepting answer being returned without capture.
C23_ModifierClick ==
    [][ LET r == last'
            qual == Tryable(Children(Main), r.local)
            n == Len(r.tried)
        IN r.op = "onMouseDown" =>
           /\ (qual # <<>> /\ r.takes /\ listener[qual[1]])
                 => /\ r.ret = kMouseEventHandled
                    /\ r.tried = <<>>
                    /\ r.clicked = qual[1]
                    /\ focusView' = focusView
                    /\ mouseDownView' = mouseDownView
           /\ r.clicked # Null
                 => /\ r.takes /\ listener[r.clicked]
                    /\ r.ret = kMouseEventHandled
                    /\ r.clicked \notin SeqRange(r.tried)
                    /\ mouseDownView' = mouseDownView
                    /\ focusView' = focusView \/ focusView' \in SeqRange(r.tried)
           /\ mouseDownView' # mouseDownView
                 => /\ n > 0
                    /\ r.answers[n] = kMouseEventHandled
                    /\ mouseDownView'[Main] = r.tried[n]
           /\ (n > 0 /\ r.clicked = Null /\ ~Declines(r.answers[n]))
                 => r.ret = r.answers[n]
      ]_vars
\* the listener of the topmost child took the click: that child wants the focus
\* and another child lies below it, but nothing was called, focused or captured
C23_Witness ==
    /\ last.op = "onMouseDown"
    /\ last.clicked \in SeqRange(Children(Main))
    /\ wantsFocus[last.clicked]
    /\ last.tried = <<>>
    /\ Len(Tryable(Children(Main), last.local)) >= 2
    /\ last.ret = kMouseEventHandled
    /\ focusView = Null
    /\ mouseDownView[Main] = Null

\* the children of s that onWheel forwards the wheel to for the point q, topmost first
Wheelable(s, q) ==
    SelectSeq(Reversed(s), LAMBDA v : visible[v] /\ IsInside(q, mouseableArea[v]))

\* C24: onWheel, with children that leave the list alone in the callback, calls
\* the visible children whose mouseable area contains the container-local point
\* topmost first: it returns true when the called child accepts, false without
\* calling a lower child when it declines and is not transparent, goes on with
\* the next lower such child when it declines and is transparent, and returns
\* false when no child is under the point.
C24_WheelOrder ==
    [][ LET r == last'
            qual == Wheelable(Children(Main), r.where2)
            n == Len(r.visited)
        IN (r.op = "onWheel" /\ r.removed = {}) =>
           /\ r.where2 = Point(r.arg.x - size[Main].left, r.arg.y - size[Main].top)
           /\ n <= Len(qual)
           /\ r.visited = SubSeq(qual, 1, n)
           /\ \A i \in 1..(n - 1) : ~r.answers[i] /\ transparent[r.visited[i]]
           /\ n = 0 => (qual = <<>> /\ r.ret = FALSE)
           /\ (n > 0 /\ r.answers[n]) => r.ret = TRUE
           /\ (n > 0 /\ ~r.answers[n])
                 => (r.ret = FALSE /\ (transparent[r.visited[n]] => n = Len(qual)))
      ]_vars
\* the topmost child under the point is invisible and the one below it got the
\* wheel and declined
C24_Witness ==
    /\ last.op = "onWheel"
    /\ last.removed = {}
    /\ Len(last.visited) = 1
    /\ ~last.ret
    /\ \E i \in 1..Len(Children(Main)) :
          /\ Children(Main)[i] = last.visited[1]
          /\ \E j \in (i + 1)..Len(Children(Main)) :
                /\ ~visible[Children(Main)[j]]
                /\ IsInside(last.where2, mouseableArea[Children(Main)[j]])

\* r in the coordinates of the frame, r being in those of container c
RECURSIVE InFrame(_, _)
InFrame(c, r) ==
    LET up == OffsetRect(r, size[c].left, size[c].top)
    IN IF pParentView[c] = Null THEN up ELSE InFrame(pParentView[c], up)
\* the bounds of container a in the coordinates of the frame
BoundsInFrame(a) ==
    IF pParentView[a] = Null THEN size[a] ELSE InFrame(pParentView[a], size[a])
\* r of container c, in the coordinates of the frame, cut by c, by every
\* container c lies in and by the frame
VisiblePart(c, r) ==
    LET rects == {InFrame(c, r), frameSize} \cup {BoundsInFrame(a) : a \in Ancestors(c)}
    IN Rect(MaxOf({x.left : x \in rects}), MaxOf({x.top : x \in rects}),
            MinOf({x.right : x \in rects}), MinOf({x.bottom : x \in rects}))
\* r has no point outside rect
Within(r, rect) ==
    HasArea(r) => /\ rect.left <= r.left /\ r.right <= rect.right
                  /\ rect.top <= r.top /\ r.bottom <= rect.bottom

Kids(c) == {Children(c)[i] : i \in 1..Len(Children(c))}
\* the child has a part with an area inside (0, 0, width, height) of c
ShowsIn(c, v) ==
    HasArea(Intersection(viewSize[v], Rect(0, 0, getWidth(size[c]), getHeight(size[c]))))
\* what C26 says isDirty is; a child that is a container is dirty when its own
\* isDirty says so
RECURSIVE SaidDirty(_)
SaidDirty(c) ==
    \/ cDirty[c]
    \/ \E v \in Kids(c) :
          /\ visible[v]
          /\ IF IsContainer(v) THEN SaidDirty(ContainerOf(v)) ELSE bDirty[v]
          /\ ShowsIn(c, v)

\* C26: isDirty () of a container is true exactly when its own dirty flag is set
\* or some child is visible, dirty and has a frame of which a part of positive
\* width and height lies in the container's local bounds; a dirty child that
\* is invisible or lies outside the bounds does not make the container dirty.
C26_IsDirty ==
    [][ LET r == last'
        IN r.op = "isDirty"
           => /\ r.ret = SaidDirty(r.c)
              /\ (/\ ~cDirty[r.c]
                  /\ \A v \in Kids(r.c) : ~visible[v] \/ ~ShowsIn(r.c, v))
                 => r.ret = FALSE ]_vars

\* a container with a dirty child right of its bounds, and nothing else dirty,
\* was asked and said no
C26_Witness ==
    /\ last.op = "isDirty"
    /\ last.ret = FALSE
    /\ \E v \in Kids(last.c) : bDirty[v] /\ visible[v] /\ ~ShowsIn(last.c, v)

\* the calls C27 expects of invalidateDirtyViews on container c
RECURSIVE DueCalls(_)
DueCalls(c) ==
    IF ~cVisible[c] THEN {}
    ELSE IF cDirty[c] THEN {<<"invalidRect", pParentView[c], size[c]>>}
    ELSE {<<"invalid", v>> : v \in {w \in Kids(c) : ~IsContainer(w) /\ visible[w] /\ bDirty[w]}}
         \cup UNION {DueCalls(ContainerOf(v)) :
                        v \in {w \in Kids(c) : /\ IsContainer(w)
                                                /\ visible[w]
                                                /\ SaidDirty(ContainerOf(w))}}

\* C27: invalidateDirtyViews on a visible container whose own dirty flag is set
\* hands its own frame to invalidRect of what it lies in, once, and asks no
\* child; on an invisible container it makes no call and asks no child;
\* otherwise it invalidates every child that is visible and dirty, going into
\* the children that are containers, and no other child, and the children
\* invalidated are clean afterwards; it returns true in every case.
C27_InvalidateDirtyViews ==
    [][ LET r == last'
            made == {r.calls[i] : i \in 1..Len(r.calls)}
        IN r.op = "invalidateDirtyViews"
           => /\ r.ret = TRUE
              /\ (cVisible[r.c] /\ cDirty[r.c])
                 => /\ r.calls = << <<"invalidRect", pParentView[r.c], size[r.c]>> >>
                    /\ r.asked = <<>>
              /\ ~cVisible[r.c] => (r.calls = <<>> /\ r.asked = <<>>)
              /\ made = DueCalls(r.c)
              /\ Cardinality(made) = Len(r.calls)
              /\ \A v \in Views : bDirty'[v] = (bDirty[v] /\ <<"invalid", v>> \notin made) ]_vars

\* the outer container was clean, the container in it was dirty through a
\* child only: that child was invalidated, a clean child of the outer one was
\* not
C27_Witness ==
    /\ last.op = "invalidateDirtyViews"
    /\ last.c = Main
    /\ \E v \in Kids(Box) : <<"invalid", v>> \in {last.calls[i] : i \in 1..Len(last.calls)}
    /\ \E v \in Kids(Main) : v # BoxView /\ last.asked[Len(last.asked)] = v
                               /\ \A i \in 1..Len(last.calls) : last.calls[i] # <<"invalid", v>>

\* the children of container c that a paint recorded in r painted, in the order
\* they were painted in
PaintedBy(r, c) ==
    LET mine == SelectSeq(r.painted, LAMBDA e : e.by = c)
    IN [i \in 1..Len(mine) |-> mine[i].v]

\* C28: when drawRect returns, the origin offset, the clip rectangle and the
\* global alpha of the draw context are what they were when it was called,
\* whatever the children and the update rectangle are, children skipped for an
\* empty clipped frame included, and the container's own dirty flag is clear.
C28_ContextRestored ==
    [][ LET r == last'
        IN r.op = "drawRect"
           => /\ r.exit.offset = r.entry.offset
              /\ r.exit.clip = r.entry.clip
              /\ r.exit.alpha = r.entry.alpha
              /\ ~cDirty'[r.c] ]_vars

\* a dirty container was painted: one child was painted and left its own clip
\* and alpha in the context, a visible child that met the update rectangle was
\* skipped because nothing of its frame was inside the clip
C28_Witness ==
    /\ last.op = "drawRect"
    /\ last.messy
    /\ last.entry.offset # Point(0, 0)
    /\ \E i \in 1..Len(last.painted) : ~IsContainer(last.painted[i].v)
    /\ \E v \in Kids(last.c) :
          /\ visible[v] /\ checkUpdate(v, last.clientRect)
          /\ \A i \in 1..Len(last.painted) : last.painted[i].v # v
    /\ last.exit = last.entry

\* C29: drawRect paints children from the head of the list to its tail, the
\* reverse of the order onMouseDown tries them in; the children painted are
\* those that are visible, whose frame meets the clipped update rectangle and
\* of whose frame a part of non-zero width and height is left inside the clip;
\* each is painted with the global alpha of the context times its own alpha.
C29_PaintOrder ==
    [][ LET r == last'
        IN /\ r.op = "drawRect"
              => /\ PaintedBy(r, r.c)
                    = SelectSeq(Children(r.c),
                                LAMBDA v : /\ visible[v]
                                           /\ rectOverlap(r.clientRect, viewSize[v])
                                           /\ HasArea(Intersection(viewSize[v], r.newClip)))
                 /\ \A i \in 1..Len(r.painted) :
                       LET e == r.painted[i]
                           before == IF e.by = r.c THEN r.entry.alpha
                                     ELSE Alpha(r.entry.alpha.num * alphaValue[asView[e.by]].num,
                                                r.entry.alpha.den * alphaValue[asView[e.by]].den)
                       IN /\ e.alpha.num = before.num * alphaValue[e.v].num
                          /\ e.alpha.den = before.den * alphaValue[e.v].den
           /\ r.op = "onMouseDown"
              => r.tried = Only(Reversed(Children(r.c)), {r.tried[i] : i \in 1..Len(r.tried)}) ]_vars

\* two children were painted, in list order, one was left out; the context
\* came with an alpha below one
C29_Witness ==
    /\ last.op = "drawRect"
    /\ last.c = Main
    /\ Len(PaintedBy(last, Main)) >= 2
    /\ Len(PaintedBy(last, Main)) < Len(Children(Main))
    /\ last.entry.alpha # Alpha(1, 1)
    /\ \E i \in 1..Len(last.painted) : alphaValue[last.painted[i].v] # Alpha(1, 1)

\* what C30 says of one edge pair of a child: lo and hi are the left and right
\* (or top and bottom) edges before, lo2 and hi2 after, i is the 0-based index
\* of the child and step the share D / n of one child
ShiftedAndGrown(lo, hi, lo2, hi2, i, step) ==
    /\ lo2 = lo + i * step
    /\ hi2 - lo2 = (hi - lo) + step

\* C30: when a container with kAutosizeColumn and n children gets wider by D, a
\* multiple of n, the child at index i (from 0, in list order) moves right by
\* i * (D / n) and gets wider by D / n, its frame and its mouseable area alike,
\* whatever its own flags are, so that the widths of the children grow by D in
\* all; with kAutosizeRow the same holds for top, height and the height delta.
C30_ColumnAndRow ==
    [][ LET r == last'
            kids == Children(Main)
            n == Len(kids)
            D == getWidth(size'[Main]) - getWidth(size[Main])
            H == getHeight(size'[Main]) - getHeight(size[Main])
        IN (r.op = "setViewSize" /\ r.c = Main /\ n > 0)
           => /\ (kAutosizeColumn \in cAutosize[Main] /\ D % n = 0)
                 => /\ \A i \in 1..n :
                          LET v == kids[i]
                          IN /\ ShiftedAndGrown(viewSize[v].left, viewSize[v].right,
                                                viewSize'[v].left, viewSize'[v].right,
                                                i - 1, D \div n)
                             /\ ShiftedAndGrown(mouseableArea[v].left, mouseableArea[v].right,
                                                mouseableArea'[v].left, mouseableArea'[v].right,
                                                i - 1, D \div n)
                    /\ SumOver([v \in Views |-> getWidth(viewSize'[v])], SeqRange(kids))
                       = SumOver([v \in Views |-> getWidth(viewSize[v])], SeqRange(kids)) + D
              /\ (kAutosizeRow \in cAutosize[Main] /\ H % n = 0)
                 => /\ \A i \in 1..n :
                          LET v == kids[i]
                          IN /\ ShiftedAndGrown(viewSize[v].top, viewSize[v].bottom,
                                                viewSize'[v].top, viewSize'[v].bottom,
                                                i - 1, H \div n)
                             /\ ShiftedAndGrown(mouseableArea[v].top, mouseableArea[v].bottom,
                                                mouseableArea'[v].top, mouseableArea'[v].bottom,
                                                i - 1, H \div n)
                    /\ SumOver([v \in Views |-> getHeight(viewSize'[v])], SeqRange(kids))
                       = SumOver([v \in Views |-> getHeight(viewSize[v])], SeqRange(kids)) + H ]_vars

\* a column of two children was widened by two: the second child, which has
\* kAutosizeLeft and kAutosizeRight, moved right by one, and both are one wider
C30_Witness ==
    /\ last.op = "setViewSize" /\ last.ret
    /\ kAutosizeColumn \in cAutosize[Main]
    /\ Children(Main) = <<1, 2>>
    /\ getWidth(size[Main]) = getWidth(MouseOrigin) + 2
    /\ autosizeFlags[2] = {kAutosizeLeft, kAutosizeRight}
    /\ viewSize[1] = Rect(0, 0, 3, 2)
    /\ viewSize[2] = Rect(2, 0, 5, 2)
    /\ mouseableArea[2] = Rect(2, 0, 4, 2)

\* C31: when the container has kAutosizeRow or kAutosizeColumn, sizeToFit
\* returns false and changes neither the frame of the container, nor its
\* mouseable area, nor anything of a child.
C31_FitRefused ==
    [][ LET r == last'
        IN (r.op = "sizeToFit" /\ cAutosize[r.c] \cap {kAutosizeRow, kAutosizeColumn} # {})
           => /\ r.ret = FALSE
              /\ size' = size
              /\ cMouseableArea' = cMouseableArea
              /\ UNCHANGED <<listVars, viewVars, viewSize, mouseableArea, visible,
                             mouseEnabled, transparent, autosizeFlags>> ]_vars

\* sizeToFit was refused on a container with a visible child whose frame is
\* not as wide as the container
C31_Witness ==
    /\ last.op = "sizeToFit"
    /\ last.ret = FALSE
    /\ cAutosize[Main] # {}
    /\ VisibleChildren(Main) # {}
    /\ getWidth(UnionBox(VisibleChildren(Main))) # getWidth(size[Main])

\* C32: changeViewZOrder (view, newIndex) returns true exactly when the
\* sequence of the children from head to tail after the call differs from the
\* one before the call.
C32_TrueIffChanged ==
    [][ LET r == last'
        IN r.op = "changeViewZOrder"
           => (r.ret = (Children(Main)' # Children(Main))) ]_vars

\* C34: addView (view, before) on a container that has children, before being
\* null or no child of the container, puts view behind the last child, where it
\* is the topmost one.
C34_AppendsWithoutBefore ==
    [][ LET r == last'
            old == Children(Main)
        IN (/\ r.op = "addViewBefore" /\ r.ret
            /\ old # <<>>
            /\ r.arg \notin SeqRange(old))
           => Children(Main)' = Append(old, r.v) ]_vars

\* C33: after any sequence of addView, addView (view, before), removeView,
\* changeViewZOrder (any index) and removeAll the linked list is well formed:
\* pFirstView has no predecessor, pLastView has no successor and is the node the
\* next pointers lead to from pFirstView, both are null exactly when the list is
\* empty, next and previous pointers mirror each other, and the backward
\* traversal visits the nodes of the forward traversal in opposite order.
WellFormed(c) ==
    LET fwd == Walk(pNext, pFirstView[c])
        bwd == Walk(pPrevious, pLastView[c])
    IN /\ (pFirstView[c] = Null) = (pLastView[c] = Null)
       /\ (pFirstView[c] = Null) = (fwd = <<>>)
       /\ pFirstView[c] # Null =>
             /\ pPrevious[pFirstView[c]] = Null
             /\ pNext[pLastView[c]] = Null
             /\ fwd[Len(fwd)] = pLastView[c]
       /\ \A i \in 1..Len(fwd) :
             /\ pNext[fwd[i]] # Null => pPrevious[pNext[fwd[i]]] = fwd[i]
             /\ pPrevious[fwd[i]] # Null => pNext[pPrevious[fwd[i]]] = fwd[i]
       /\ bwd = Reversed(fwd)
C33_ListWellFormed == \A c \in Containers : WellFormed(c)
\* a view was moved to the tail by an index that names no position, in a list
\* of three
C33_Witness ==
    /\ last.op = "changeViewZOrder" /\ last.ret
    /\ last.arg \in {-1, MaxNodes}
    /\ Len(Children(Main)) >= 3
    /\ WellFormed(Main)

\* C35: when a child takes itself out of the container (removeView with or
\* without forget) inside its own onMouseDown and answers handled, it is not
\* recorded as mouseDownView: after the call mouseDownView is null or a child.
C35_RemovedNotCaptured ==
    [][ LET r == last'
        IN (/\ r.op = "onMouseDown"
            /\ ~deadUse'
            /\ \E i \in 1..Len(r.visited) :
                  r.visited[i] \in r.removed /\ r.answers[i] = kMouseEventHandled)
           => (mouseDownView[Main]' = Null
               \/ mouseDownView[Main]' \in SeqRange(Children(Main)')) ]_vars

\* C36: the drag callbacks a child receives follow the protocol enter, moves,
\* optionally a drop, leave: onDragMove, onDrop and onDragLeave reach a child
\* only after an onDragEnter that no onDragLeave has followed, and onDragEnter
\* reaches no child that has one outstanding.
RECURSIVE FollowsProtocol(_, _)
FollowsProtocol(e, calls) ==
    IF calls = <<>> THEN TRUE
    ELSE LET k == calls[1]
         IN /\ IF k[1] = "onDragEnter" THEN k[2] \notin e ELSE k[2] \in e
            /\ FollowsProtocol(AfterCalls(e, <<k>>), Tail(calls))
C36_DragProtocol ==
    [][ LET r == last'
        IN (r.op \in {"onDragEnter", "onDragMove", "onDragLeave", "onDrop"} /\ ~deadUse')
           => FollowsProtocol(entered, r.calls) ]_vars

\* C37: whenever getViewAt (p, false) returns a view, getViewAt (p, true)
\* returns a view, too.
C37_DeepFindsWhatShallowFinds ==
    [][ LET r == last'
        IN (r.op = "getViewAt" /\ r.ret /\ ~deadUse' /\ getViewAtDeep(Main, r.arg, FALSE) # Null)
           => r.v # Null ]_vars

\* C38: advanceNextFocusView gives the focus to no view inside a child container
\* that is invisible or mouse-disabled: every ancestor of the newly focused view
\* up to the container of the call is visible and mouse-enabled.
C38_FocusUnderVisibleAncestors ==
    [][ LET r == last'
        IN (r.op = "advanceNextFocusView" /\ r.ret /\ focusView' \in SeqRange(Children(Box)))
           => (visible[BoxView] /\ mouseEnabled[BoxView]) ]_vars

\* C39: in the Minesweeper model, after any sequence of open and mark calls on
\* valid cells getNumberOfFlags () is the number of cells whose Flag bit is set
\* and no cell has both the Flag and the Question bit; opening a cell that is no
\* mine and has no mine next to it opens its whole connected mine-free region,
\* opens no mine, and ends (every cell is opened at most once, opened counts them).
Adjacent(x, y) ==
    /\ x # y
    /\ x[1] - y[1] \in -1..1
    /\ x[2] - y[2] \in -1..1
MinesNear(mine, x) == Cardinality({y \in mine : Adjacent(x, y)})
\* the cells reached from the cells of S over cells that have no mine next to them
RECURSIVE Region(_, _)
Region(mine, S) ==
    LET T == S \cup {y \in Cells : \E x \in S : x \notin mine /\ MinesNear(mine, x) = 0
                                                /\ Adjacent(x, y)}
    IN IF T = S THEN S ELSE Region(mine, T)
FlagsCounted(m) ==
    /\ getNumberOfFlags(m) = Cardinality(m.flag)
    /\ m.flag \cap m.question = {}
C39_FlagsAndFlood ==
    [][ LET r == last'
            m == model'
        IN /\ FlagsCounted(model) /\ FlagsCounted(m)
           /\ (r.op = "open" /\ r.arg \notin model.mine /\ MinesNear(model.mine, r.arg) = 0)
              => /\ Region(m.mine, {r.arg}) \subseteq m.open
                 /\ m.open \cap m.mine = model.open \cap model.mine
                 /\ m.trapped = model.trapped
                 /\ m.opened = Cardinality(m.open) ]_vars
\* a cell with no mine around it was opened in a field with a mine by the last of
\* the calls that are followed: its region of four or more cells is open, one
\* flag is set and no question mark
C39_Witness ==
    /\ last.op = "open" /\ model.running
    /\ last.arg \notin model.mine /\ MinesNear(model.mine, last.arg) = 0
    /\ model.mine # {}
    /\ Cardinality(Region(model.mine, {last.arg})) >= 4
    /\ Region(model.mine, {last.arg}) \subseteq model.open
    /\ model.flagged = 1 /\ model.question = {}
    /\ nMoves = MaxMoves

\* C40: once the model is trapped or done no later mouse event changes it:
\* neither dbOnMouseUp nor the long-press timer that dbOnMouseDown starts in
\* touchpad mode opens or marks a cell, in either mode and for every
\* interleaving of mouse-down, timer and mouse-up.
C40_NoMoveAfterGameOver ==
    [][ (controller.running /\ (isTrapped(model) \/ isDone(model))) => model' = model ]_vars

====
